---- MODULE Spec2Model ----
(***************************************************************************)
(* Navgator (src/main.rs): the fuzzy matcher, the filter/sort pipeline,    *)
(* the enrichment scheduler of select_from_list and the tag store.         *)
(*                                                                         *)
(* A Rust String is a sequence of one-character strings.  Option<T> is a   *)
(* sequence of length at most one: None is << >>, Some(x) is << x >>.      *)
(* A HashMap is a function whose DOMAIN is its key set.                    *)
(***************************************************************************)
EXTENDS Integers, Sequences, FiniteSets, Bags, TLC

None == << >>
Some(x) == << x >>
IsSome(o) == Len(o) = 1
Unwrap(o) == o[1]

\* HashMap::insert
MapInsert(m, k, v) == [x \in (DOMAIN m) \cup {k} |-> IF x = k THEN v ELSE m[x]]
EmptyMap == [x \in {} |-> None]

Range(s) == {s[i] : i \in 1..Len(s)}
Min2(a, b) == IF a < b THEN a ELSE b

(***************************************************************************)
(* Characters                                                              *)
(***************************************************************************)
UpperChars == <<"A","B","C","D","E","F","G","H","I","J","K","L","M",
                "N","O","P","Q","R","S","T","U","V","W","X","Y","Z">>
LowerChars == <<"a","b","c","d","e","f","g","h","i","j","k","l","m",
                "n","o","p","q","r","s","t","u","v","w","x","y","z">>

IndexIn(seq, c) == IF \E i \in 1..Len(seq) : seq[i] = c
                   THEN CHOOSE i \in 1..Len(seq) : seq[i] = c
                   ELSE 0

\* char::to_ascii_lowercase: only A-Z change
LowerMap == [c \in {UpperChars[i] : i \in 1..26} |-> LowerChars[IndexIn(UpperChars, c)]]
LowerChar(c) == IF c \in DOMAIN LowerMap THEN LowerMap[c] ELSE c

\* char::to_lowercase: the Unicode lowercase mapping, here of A-Z and of one letter
\* outside ASCII
UnicodeLowerChar(c) == IF c = "É" THEN "é" ELSE LowerChar(c)

\* char::len_utf8
len_utf8(c) == IF c \in {"É", "é"} THEN 2 ELSE 1

\* the byte offset at which the i-th character of s starts
RECURSIVE ByteOffset(_, _)
ByteOffset(s, i) == IF i <= 1 THEN 0 ELSE len_utf8(s[i - 1]) + ByteOffset(s, i - 1)

\* the byte value of an ASCII character (the order str::cmp compares by)
PunctCode ==
    [c \in {"\t", "\n", " ", "\"", "#", ",", ".", "/", "=", "@", "[", "\\", "]", "_"} |->
        CASE c = "\t" -> 9
          [] c = "\n" -> 10
          [] c = " "  -> 32
          [] c = "\"" -> 34
          [] c = "#"  -> 35
          [] c = ","  -> 44
          [] c = "."  -> 46
          [] c = "/"  -> 47
          [] c = "="  -> 61
          [] c = "@"  -> 64
          [] c = "["  -> 91
          [] c = "\\" -> 92
          [] c = "]"  -> 93
          [] c = "_"  -> 95]
CodeMap ==
    [c \in {UpperChars[i] : i \in 1..26} \cup {LowerChars[i] : i \in 1..26} \cup DOMAIN PunctCode |->
        IF IndexIn(UpperChars, c) > 0 THEN 64 + IndexIn(UpperChars, c)
        ELSE IF IndexIn(LowerChars, c) > 0 THEN 96 + IndexIn(LowerChars, c)
        ELSE PunctCode[c]]
\* the two-byte characters compare above every ASCII character, "É" below "é"
Code(c) == IF c = "É" THEN 201 ELSE IF c = "é" THEN 233 ELSE CodeMap[c]

\* char::is_whitespace
is_whitespace(c) == c \in {" ", "\t", "\n"}

\* char::eq_ignore_ascii_case
eq_ignore_ascii_case(a, b) == LowerChar(a) = LowerChar(b)

\* str::to_lowercase
to_lowercase(s) == [i \in 1..Len(s) |-> UnicodeLowerChar(s[i])]

\* Ord for str: lexicographic by byte
RECURSIVE StrCmpFrom(_, _, _)
StrCmpFrom(a, b, i) ==
    IF i > Len(a) /\ i > Len(b) THEN "Equal"
    ELSE IF i > Len(a) THEN "Less"
    ELSE IF i > Len(b) THEN "Greater"
    ELSE IF Code(a[i]) < Code(b[i]) THEN "Less"
    ELSE IF Code(a[i]) > Code(b[i]) THEN "Greater"
    ELSE StrCmpFrom(a, b, i + 1)
StrCmp(a, b) == StrCmpFrom(a, b, 1)

\* Ordering::then_with
ThenWith(first, second) == IF first = "Equal" THEN second ELSE first

\* Ord for the score tuple (usize, usize, usize, usize, usize)
RECURSIVE TupleCmpFrom(_, _, _)
TupleCmpFrom(a, b, i) ==
    IF i > Len(a) THEN "Equal"
    ELSE IF a[i] < b[i] THEN "Less"
    ELSE IF a[i] > b[i] THEN "Greater"
    ELSE TupleCmpFrom(a, b, i + 1)
TupleCmp(a, b) == TupleCmpFrom(a, b, 1)
TupleMin(a, b) == IF TupleCmp(b, a) = "Less" THEN b ELSE a

\* usize::saturating_add; the sums of the model stay far below usize::MAX
saturating_add(a, b) == a + b
\* usize::saturating_sub
saturating_sub(a, b) == IF a >= b THEN a - b ELSE 0

(***************************************************************************)
(* Matcher / scorer                                                        *)
(***************************************************************************)
\* query.chars().filter(|c| !c.is_whitespace())
NonWhitespace(s) == SelectSeq(s, LAMBDA c : ~is_whitespace(c))

RECURSIVE FuzzyFrom(_, _, _, _)
FuzzyFrom(q, qi, text, ti) ==
    IF ti > Len(text) THEN FALSE
    ELSE IF eq_ignore_ascii_case(q[qi], text[ti])
         THEN IF qi = Len(q) THEN TRUE ELSE FuzzyFrom(q, qi + 1, text, ti + 1)
         ELSE FuzzyFrom(q, qi, text, ti + 1)

fuzzy_match_chars(q, text) == IF q = << >> THEN TRUE ELSE FuzzyFrom(q, 1, text, 1)
fuzzy_match(query, text) == fuzzy_match_chars(NonWhitespace(query), text)

\* str::find: the byte offset of the first place at which needle occurs
StartsAt(hay, needle, i) ==
    /\ i + Len(needle) - 1 <= Len(hay)
    /\ \A k \in 1..Len(needle) : hay[i + k - 1] = needle[k]
StrFind(hay, needle) ==
    IF \E i \in 1..Len(hay) + 1 : StartsAt(hay, needle, i)
    THEN Some(ByteOffset(hay, CHOOSE i \in 1..Len(hay) + 1 :
                                 /\ StartsAt(hay, needle, i)
                                 /\ \A j \in 1..(i - 1) : ~StartsAt(hay, needle, j)))
    ELSE None

\* the number of characters of text that start before byte_index
char_index_from_byte(text, byte_index) ==
    Cardinality({i \in 1..Len(text) : ByteOffset(text, i) < byte_index})

\* .map(|byte_index| char_index_from_byte(text, byte_index))
char_index_of(text, byte_index) ==
    IF IsSome(byte_index) THEN Some(char_index_from_byte(text, Unwrap(byte_index))) ELSE None

find_case_insensitive(text, needle) ==
    IF needle = << >> THEN Some(0)
    ELSE char_index_of(text, StrFind(to_lowercase(text), to_lowercase(needle)))

\* the greedy earliest positions (0-based) of the characters of qchars in text
RECURSIVE GreedyPositions(_, _, _, _, _)
GreedyPositions(qchars, qi, text, ti, acc) ==
    IF qi > Len(qchars) \/ ti > Len(text) THEN acc
    ELSE IF eq_ignore_ascii_case(qchars[qi], text[ti])
         THEN GreedyPositions(qchars, qi + 1, text, ti + 1, Append(acc, ti - 1))
         ELSE GreedyPositions(qchars, qi, text, ti + 1, acc)

RECURSIVE GapSum(_, _)
GapSum(positions, i) ==
    IF i >= Len(positions) THEN 0
    ELSE saturating_add(saturating_sub(positions[i + 1], positions[i] + 1),
                        GapSum(positions, i + 1))

match_score_of_byte_len(qchars, found, positions, text) ==
    IF qchars = << >> THEN Some(<<0, 0, 0, 0, ByteOffset(text, Len(text) + 1)>>)
    ELSE IF IsSome(found)
         THEN Some(<<0, saturating_sub(Len(qchars), 1), 0, Unwrap(found),
                     ByteOffset(text, Len(text) + 1)>>)
    ELSE IF Len(positions) < Len(qchars) THEN None
    ELSE Some(<<1,
                saturating_sub(positions[Len(positions)], positions[1]),
                GapSum(positions, 1),
                positions[1],
                ByteOffset(text, Len(text) + 1)>>)

\* the score from the query characters, the substring hit and the greedy positions
match_score_of(qchars, found, positions, text) ==
    IF qchars = << >> THEN Some(<<0, 0, 0, 0, Len(text)>>)
    ELSE IF IsSome(found)
         THEN Some(<<0, saturating_sub(Len(qchars), 1), 0, Unwrap(found), Len(text)>>)
    ELSE IF Len(positions) < Len(qchars) THEN None
    ELSE Some(<<1,
                saturating_sub(positions[Len(positions)], positions[1]),
                GapSum(positions, 1),
                positions[1],
                Len(text)>>)

match_score(query, text) ==
    match_score_of(NonWhitespace(query), find_case_insensitive(text, query),
                   GreedyPositions(NonWhitespace(query), 1, text, 1, << >>), text)

\* Path::file_name: the last component, the path itself when there is none
RECURSIVE StripTrailingSlashes(_)
StripTrailingSlashes(p) ==
    IF Len(p) > 1 /\ p[Len(p)] = "/" THEN StripTrailingSlashes(SubSeq(p, 1, Len(p) - 1)) ELSE p

LastSlash(p) ==
    LET slashes == {i \in 1..Len(p) : p[i] = "/"}
    IN  IF slashes = {} THEN 0 ELSE CHOOSE i \in slashes : \A j \in slashes : j <= i
FileName(p) == SubSeq(p, LastSlash(p) + 1, Len(p))
\* .unwrap_or(path)
NameOr(name, path) == IF name = << >> \/ name = <<".", ".">> THEN path ELSE name

entry_name(path) == NameOr(FileName(StripTrailingSlashes(path)), path)

(***************************************************************************)
(* Query tokens                                                            *)
(***************************************************************************)
\* str::split_whitespace
RECURSIVE SplitFrom(_, _, _, _)
SplitFrom(s, i, cur, acc) ==
    IF i > Len(s) THEN (IF cur = << >> THEN acc ELSE Append(acc, cur))
    ELSE IF is_whitespace(s[i])
         THEN SplitFrom(s, i + 1, << >>, IF cur = << >> THEN acc ELSE Append(acc, cur))
         ELSE SplitFrom(s, i + 1, Append(cur, s[i]), acc)
split_whitespace(s) == SplitFrom(s, 1, << >>, << >>)

\* raw.strip_prefix('@'), raw.strip_prefix('#')
StripPrefix(raw) == SubSeq(raw, 2, Len(raw))
MapStripPrefix(raws) == [i \in 1..Len(raws) |-> StripPrefix(raws[i])]
TokensOf(raws) ==
    [folder |-> MapStripPrefix(SelectSeq(raws, LAMBDA r : r[1] = "@" /\ Len(r) > 1)),
     tags   |-> MapStripPrefix(SelectSeq(raws, LAMBDA r : r[1] = "#" /\ Len(r) > 1)),
     any    |-> SelectSeq(raws, LAMBDA r : r[1] # "@" /\ r[1] # "#")]

parse_query_tokens(query) == TokensOf(split_whitespace(query))

tokens_is_empty(tokens) ==
    tokens.folder = << >> /\ tokens.tags = << >> /\ tokens.any = << >>

needs_tags_any_token(tokens) == ~tokens_is_empty(tokens)

needs_tags(tokens) == tokens.tags # << >> \/ tokens.any # << >>

\* a variant of matches_path_token that looks at the leaf name only
matches_path_token_leaf_only(token, path) == fuzzy_match(token, entry_name(path))

matches_path_token(token, path) ==
    fuzzy_match(token, entry_name(path)) \/ fuzzy_match(token, path)

\* a variant of matches_tokens that lets a tag token match the path as well
matches_tokens_tags_on_path(path, tags, tokens) ==
    /\ \A i \in 1..Len(tokens.folder) : matches_path_token(tokens.folder[i], path)
    /\ \A i \in 1..Len(tokens.tags) :
          \/ matches_path_token(tokens.tags[i], path)
          \/ \E t \in 1..Len(tags) : fuzzy_match(tokens.tags[i], tags[t])
    /\ \A i \in 1..Len(tokens.any) :
          \/ matches_path_token(tokens.any[i], path)
          \/ \E t \in 1..Len(tags) : fuzzy_match(tokens.any[i], tags[t])

matches_tokens(path, tags, tokens) ==
    /\ \A i \in 1..Len(tokens.folder) : matches_path_token(tokens.folder[i], path)
    /\ \A i \in 1..Len(tokens.tags) :
          \E t \in 1..Len(tags) : fuzzy_match(tokens.tags[i], tags[t])
    /\ \A i \in 1..Len(tokens.any) :
          \/ matches_path_token(tokens.any[i], path)
          \/ \E t \in 1..Len(tags) : fuzzy_match(tokens.any[i], tags[t])

\* best = Some(match best { Some(current) => current.min(score), None => score })
BetterScore(best, score) ==
    IF IsSome(score)
    THEN (IF IsSome(best) THEN Some(TupleMin(Unwrap(best), Unwrap(score))) ELSE score)
    ELSE best

RECURSIVE BestTagFrom(_, _, _, _)
BestTagFrom(token, tags, i, best) ==
    IF i > Len(tags) THEN best
    ELSE BestTagFrom(token, tags, i + 1, BetterScore(best, match_score(token, tags[i])))
best_tag_score(token, tags) == BestTagFrom(token, tags, 1, None)

PathScoreOf_without_raise(leaf, full) == IF IsSome(leaf) THEN leaf ELSE full

\* the leaf score, else the full-path score with its tier raised by 2
PathScoreOf(leaf, full) ==
    IF IsSome(leaf) THEN leaf
    ELSE IF IsSome(full)
         THEN Some(<<saturating_add(Unwrap(full)[1], 2), Unwrap(full)[2],
                     Unwrap(full)[3], Unwrap(full)[4], Unwrap(full)[5]>>)
    ELSE None

match_score_for_path(token, path) ==
    PathScoreOf(match_score(token, entry_name(path)), match_score(token, path))

AddScore(sum, score) == [i \in 1..5 |-> saturating_add(sum[i], score[i])]

\* the score of one generic token: the better of its path score and its best tag score
BestOf(path_score, tag_score) ==
    IF IsSome(tag_score)
    THEN (IF IsSome(path_score)
          THEN Some(TupleMin(Unwrap(path_score), Unwrap(tag_score)))
          ELSE tag_score)
    ELSE path_score

AnyTokenScore(token, path, tags) ==
    BestOf(match_score_for_path(token, path), best_tag_score(token, tags))

RECURSIVE SumScores(_, _, _)
SumScores(scores, i, sum) ==
    IF i > Len(scores) THEN Some(sum)
    ELSE IF ~IsSome(scores[i]) THEN None
    ELSE SumScores(scores, i + 1, AddScore(sum, Unwrap(scores[i])))

match_score_tokens(tokens, path, tags) ==
    LET scores ==
            [i \in 1..Len(tokens.folder) |-> match_score_for_path(tokens.folder[i], path)]
            \o [i \in 1..Len(tokens.tags) |-> best_tag_score(tokens.tags[i], tags)]
            \o [i \in 1..Len(tokens.any) |-> AnyTokenScore(tokens.any[i], path, tags)]
    IN  SumScores(scores, 1, <<0, 0, 0, 0, 0>>)

(***************************************************************************)
(* Filter / sort pipeline.  Item indices and list positions are 0-based as *)
(* in the source: items[i] is items[i + 1] here.                           *)
(***************************************************************************)
SortModes == {"Match", "AlphaAsc", "AlphaDesc", "CreatedAsc", "CreatedDesc",
              "ModifiedAsc", "ModifiedDesc"}

\* SortMode::next
sort_mode_next(mode) ==
    CASE mode = "Match"        -> "AlphaAsc"
      [] mode = "AlphaAsc"     -> "AlphaDesc"
      [] mode = "AlphaDesc"    -> "CreatedAsc"
      [] mode = "CreatedAsc"   -> "CreatedDesc"
      [] mode = "CreatedDesc"  -> "ModifiedAsc"
      [] mode = "ModifiedAsc"  -> "ModifiedDesc"
      [] mode = "ModifiedDesc" -> "Match"

uses_time_modified_only(mode) == mode \in {"ModifiedAsc", "ModifiedDesc"}

\* SortMode::uses_time
uses_time(mode) == mode \in {"CreatedAsc", "CreatedDesc", "ModifiedAsc", "ModifiedDesc"}

\* SortMeta::default()
DefaultMeta == [modified_epoch |-> None, created_epoch |-> None]

\* tag_cache.get(item).map(Vec::as_slice).unwrap_or(&[])
TagsOf(tag_cache, path) == IF path \in DOMAIN tag_cache THEN tag_cache[path] ELSE << >>

AllIndices(items) == [i \in 1..Len(items) |-> i - 1]

\* the indices whose item passes the tokens
filter_by_tokens(items, tokens, tag_cache) ==
    IF tokens_is_empty(tokens) THEN AllIndices(items)
    ELSE SelectSeq(AllIndices(items),
             LAMBDA index : matches_tokens(items[index + 1],
                                           TagsOf(tag_cache, items[index + 1]), tokens))

filter_indices(items, query, tag_cache) ==
    filter_by_tokens(items, parse_query_tokens(query), tag_cache)

compare_names(left, right) ==
    ThenWith(StrCmp(to_lowercase(entry_name(left)), to_lowercase(entry_name(right))),
             StrCmp(left, right))

compare_time(left, right, meta_cache, field) ==
    LET left_meta == IF left \in DOMAIN meta_cache THEN meta_cache[left] ELSE DefaultMeta
        right_meta == IF right \in DOMAIN meta_cache THEN meta_cache[right] ELSE DefaultMeta
        left_time == IF field = "Created" THEN left_meta.created_epoch
                                          ELSE left_meta.modified_epoch
        right_time == IF field = "Created" THEN right_meta.created_epoch
                                           ELSE right_meta.modified_epoch
    IN  IF IsSome(left_time) /\ IsSome(right_time)
        THEN (IF Unwrap(left_time) < Unwrap(right_time) THEN "Less"
              ELSE IF Unwrap(left_time) > Unwrap(right_time) THEN "Greater"
              ELSE "Equal")
        ELSE IF IsSome(left_time) THEN "Less"
        ELSE IF IsSome(right_time) THEN "Greater"
        ELSE "Equal"

compare_indices(left, right, items, sort_mode, meta_cache) ==
    LET left_path == items[left + 1]
        right_path == items[right + 1]
    IN  CASE sort_mode = "Match" -> compare_names(left_path, right_path)
          [] sort_mode = "AlphaAsc" -> compare_names(left_path, right_path)
          [] sort_mode = "AlphaDesc" -> compare_names(right_path, left_path)
          [] sort_mode = "CreatedAsc" ->
                ThenWith(compare_time(left_path, right_path, meta_cache, "Created"),
                         compare_names(left_path, right_path))
          [] sort_mode = "CreatedDesc" ->
                ThenWith(compare_time(right_path, left_path, meta_cache, "Created"),
                         compare_names(left_path, right_path))
          [] sort_mode = "ModifiedAsc" ->
                ThenWith(compare_time(left_path, right_path, meta_cache, "Modified"),
                         compare_names(left_path, right_path))
          [] sort_mode = "ModifiedDesc" ->
                ThenWith(compare_time(right_path, left_path, meta_cache, "Modified"),
                         compare_names(left_path, right_path))

\* slice::sort_by is a stable sort: each element goes after the elements that do
\* not compare Greater than it
RECURSIVE InsertSorted(_, _, _, _, _, _)
InsertSorted(sorted, x, k, items, sort_mode, meta_cache) ==
    IF k = 0 \/ compare_indices(sorted[k], x, items, sort_mode, meta_cache) # "Greater"
    THEN SubSeq(sorted, 1, k) \o <<x>> \o SubSeq(sorted, k + 1, Len(sorted))
    ELSE InsertSorted(sorted, x, k - 1, items, sort_mode, meta_cache)

RECURSIVE SortFrom(_, _, _, _, _, _)
SortFrom(indices, i, sorted, items, sort_mode, meta_cache) ==
    IF i > Len(indices) THEN sorted
    ELSE SortFrom(indices, i + 1,
                  InsertSorted(sorted, indices[i], Len(sorted), items, sort_mode, meta_cache),
                  items, sort_mode, meta_cache)

sort_indices(indices, items, sort_mode, meta_cache) ==
    SortFrom(indices, 1, << >>, items, sort_mode, meta_cache)

\* scored.sort_by(|a, b| a.1.cmp(&b.1).then_with(|| a.0.cmp(&b.0)))
ScoredCmp(a, b) ==
    ThenWith(TupleCmp(a[2], b[2]),
             IF a[1] < b[1] THEN "Less" ELSE IF a[1] > b[1] THEN "Greater" ELSE "Equal")

RECURSIVE InsertScored(_, _, _)
InsertScored(sorted, x, k) ==
    IF k = 0 \/ ScoredCmp(sorted[k], x) # "Greater"
    THEN SubSeq(sorted, 1, k) \o <<x>> \o SubSeq(sorted, k + 1, Len(sorted))
    ELSE InsertScored(sorted, x, k - 1)

RECURSIVE SortScoredFrom(_, _, _)
SortScoredFrom(scored, i, sorted) ==
    IF i > Len(scored) THEN sorted
    ELSE SortScoredFrom(scored, i + 1, InsertScored(sorted, scored[i], Len(sorted)))

\* match_score_tokens(&tokens, item, tags) of the item at index
ScoreAt(items, tokens, tag_cache, index) ==
    match_score_tokens(tokens, items[index + 1], TagsOf(tag_cache, items[index + 1]))

\* the indices that pass the tokens and have a score
Kept(items, tokens, tag_cache) ==
    SelectSeq(AllIndices(items),
        LAMBDA index :
            /\ matches_tokens(items[index + 1], TagsOf(tag_cache, items[index + 1]), tokens)
            /\ IsSome(ScoreAt(items, tokens, tag_cache, index)))

\* scored.push((index, score))
ScoredOf(items, tokens, tag_cache, kept) ==
    [i \in 1..Len(kept) |-> <<kept[i], Unwrap(ScoreAt(items, tokens, tag_cache, kept[i]))>>]

Scored(items, tokens, tag_cache) ==
    ScoredOf(items, tokens, tag_cache, Kept(items, tokens, tag_cache))

\* scored.into_iter().map(|(idx, _)| idx).collect()
Firsts(sorted) == [i \in 1..Len(sorted) |-> sorted[i][1]]

match_sorted(items, tokens, tag_cache) ==
    IF tokens_is_empty(tokens) THEN AllIndices(items)
    ELSE Firsts(SortScoredFrom(Scored(items, tokens, tag_cache), 1, << >>))

filter_and_sort_by_match(items, query, tag_cache) ==
    match_sorted(items, parse_query_tokens(query), tag_cache)

\* a variant of filter_and_sort that leaves the filtered indices unsorted
filter_and_sort_unsorted(items, query, sort_mode, meta_cache, tag_cache) ==
    IF sort_mode = "Match"
    THEN filter_and_sort_by_match(items, query, tag_cache)
    ELSE filter_indices(items, query, tag_cache)

filter_and_sort(items, query, sort_mode, meta_cache, tag_cache) ==
    IF sort_mode = "Match"
    THEN filter_and_sort_by_match(items, query, tag_cache)
    ELSE sort_indices(filter_indices(items, query, tag_cache), items, sort_mode, meta_cache)

index_for_path(items, filtered, path) ==
    LET hits == {k \in 1..Len(filtered) :
                    filtered[k] + 1 \in 1..Len(items) /\ items[filtered[k] + 1] = path}
    IN  IF hits = {} THEN None
        ELSE Some((CHOOSE k \in hits : \A j \in hits : k <= j) - 1)

adjust_selected_index(current, len) ==
    IF len = 0 THEN 0
    ELSE IF current >= len THEN len - 1
    ELSE current

current_selection_path(items, filtered, selected) ==
    IF selected < Len(filtered) /\ filtered[selected + 1] < Len(items)
    THEN Some(items[filtered[selected + 1] + 1])
    ELSE None

\* a variant of compute_list_window_offset that does not follow the selection down
compute_list_window_offset_not_following(selected, current_offset, height, total) ==
    IF total = 0 \/ height = 0 THEN 0
    ELSE LET o0 == Min2(current_offset, saturating_sub(total, 1))
             o1 == IF selected < o0 THEN selected ELSE o0
             max_offset == saturating_sub(total, height)
         IN  IF o1 > max_offset THEN max_offset ELSE o1

compute_list_window_offset(selected, current_offset, height, total) ==
    IF total = 0 \/ height = 0 THEN 0
    ELSE LET o0 == Min2(current_offset, saturating_sub(total, 1))
             o1 == IF selected < o0 THEN selected
                   ELSE IF selected >= o0 + height THEN selected + 1 - height
                   ELSE o0
             max_offset == saturating_sub(total, height)
         IN  IF o1 > max_offset THEN max_offset ELSE o1

\* a variant of visible_paths_for_window that takes every row from the offset on
visible_paths_for_window_to_the_end(items, filtered, offset, height) ==
    IF filtered = << >> \/ height = 0 THEN << >>
    ELSE [k \in 1..(Len(filtered) - offset) |-> items[filtered[offset + k] + 1]]

visible_paths_for_window(items, filtered, offset, height) ==
    IF filtered = << >> \/ height = 0 THEN << >>
    ELSE LET end == Min2(offset + height, Len(filtered))
         IN  [k \in 1..(end - offset) |-> items[filtered[offset + k] + 1]]

(***************************************************************************)
(* Tag store: the tags array of the sidecar file .navgator.toml            *)
(***************************************************************************)
Str_tags == <<"t", "a", "g", "s">>

Contains(s, c) == \E i \in 1..Len(s) : s[i] = c

\* str::find(char): the 1-based position of the first c, 0 when there is none
FindChar(s, c) ==
    IF Contains(s, c) THEN CHOOSE i \in 1..Len(s) : s[i] = c /\ \A j \in 1..(i - 1) : s[j] # c
    ELSE 0

RECURSIVE trim_start(_)
trim_start(s) == IF s # << >> /\ is_whitespace(s[1]) THEN trim_start(Tail(s)) ELSE s
RECURSIVE trim_end(_)
trim_end(s) ==
    IF s # << >> /\ is_whitespace(s[Len(s)]) THEN trim_end(SubSeq(s, 1, Len(s) - 1)) ELSE s
trim(s) == trim_end(trim_start(s))

\* str::lines: pieces between "\n", without a final empty piece
RECURSIVE LinesFrom(_, _, _, _)
LinesFrom(s, i, cur, acc) ==
    IF i > Len(s) THEN (IF cur = << >> THEN acc ELSE Append(acc, cur))
    ELSE IF s[i] = "\n" THEN LinesFrom(s, i + 1, << >>, Append(acc, cur))
    ELSE LinesFrom(s, i + 1, Append(cur, s[i]), acc)
lines(s) == LinesFrom(s, 1, << >>, << >>)

\* the part of a line before its first '#'
BeforeHash(line) ==
    IF Contains(line, "#") THEN SubSeq(line, 1, FindChar(line, "#") - 1) ELSE line

\* the text between double quotes; a '"' always ends the string it is in
RECURSIVE ExtractFrom(_, _, _, _, _)
ExtractFrom(value, i, in_string, text, tags) ==
    IF i > Len(value)
    THEN (IF in_string /\ text # << >> THEN Append(tags, text) ELSE tags)
    ELSE IF ~in_string
         THEN ExtractFrom(value, i + 1, value[i] = "\"", << >>, tags)
    ELSE IF value[i] = "\""
         THEN ExtractFrom(value, i + 1, FALSE, << >>,
                          IF text # << >> THEN Append(tags, text) ELSE tags)
    ELSE ExtractFrom(value, i + 1, TRUE, Append(text, value[i]), tags)
extract_quoted_strings(value) == ExtractFrom(value, 1, FALSE, << >>, << >>)

\* the loop of parse_tags_from_toml: the buffer collected from the lines
RECURSIVE ParseLines(_, _, _, _)
ParseLines(ls, i, in_tags, buffer) ==
    IF i > Len(ls) THEN buffer
    ELSE LET trimmed == trim(BeforeHash(ls[i]))
             eq_pos == FindChar(trimmed, "=")
             key == trim(SubSeq(trimmed, 1, eq_pos - 1))
             value == trim(SubSeq(trimmed, eq_pos + 1, Len(trimmed)))
         IN  IF trimmed = << >> THEN ParseLines(ls, i + 1, in_tags, buffer)
             ELSE IF ~in_tags
                  THEN IF eq_pos > 0 /\ key = Str_tags
                       THEN IF Contains(value, "]") THEN buffer \o value \o <<" ">>
                            ELSE ParseLines(ls, i + 1, Contains(value, "["),
                                            buffer \o value \o <<" ">>)
                       ELSE ParseLines(ls, i + 1, in_tags, buffer)
             ELSE IF Contains(trimmed, "]") THEN buffer \o trimmed \o <<" ">>
             ELSE ParseLines(ls, i + 1, in_tags, buffer \o trimmed \o <<" ">>)

\* if buffer.is_empty() { return Vec::new(); } extract_quoted_strings(&buffer)
tags_of_buffer(buffer) == IF buffer = << >> THEN << >> ELSE extract_quoted_strings(buffer)

parse_tags_from_toml(contents) ==
    tags_of_buffer(ParseLines(lines(contents), 1, FALSE, << >>))

\* tag.replace('"', "\\\"")
RECURSIVE EscapeQuotes(_)
EscapeQuotes(tag) ==
    IF tag = << >> THEN << >>
    ELSE (IF tag[1] = "\"" THEN <<"\\", "\"">> ELSE <<tag[1]>>) \o EscapeQuotes(Tail(tag))

RECURSIVE format_tags_from(_, _)
format_tags_from(tags, i) ==
    IF i > Len(tags) THEN << >>
    ELSE (IF i > 1 THEN <<",", " ">> ELSE << >>)
         \o <<"\"">> \o EscapeQuotes(tags[i]) \o <<"\"">>
         \o format_tags_from(tags, i + 1)
format_tags(tags) == format_tags_from(tags, 1)

\* the scan of write_tags_into_toml: [start, end] as 0-based Options
RECURSIVE FindTagsRange(_, _, _)
FindTagsRange(ls, i, start) ==
    IF i > Len(ls) THEN [start |-> start, end |-> None]
    ELSE LET cleaned == BeforeHash(ls[i])
             eq == FindChar(cleaned, "=")
             key == trim(SubSeq(cleaned, 1, eq - 1))
         IN  IF ~IsSome(start)
             THEN IF eq > 0 /\ key = Str_tags
                  THEN IF Contains(cleaned, "]")
                       THEN [start |-> Some(i - 1), end |-> Some(i - 1)]
                       ELSE FindTagsRange(ls, i + 1, Some(i - 1))
                  ELSE FindTagsRange(ls, i + 1, start)
             ELSE IF Contains(cleaned, "]") THEN [start |-> start, end |-> Some(i - 1)]
             ELSE FindTagsRange(ls, i + 1, start)

\* lines.join("\n") followed by push('\n')
RECURSIVE JoinLines(_, _)
JoinLines(ls, i) ==
    IF i > Len(ls) THEN <<"\n">>
    ELSE (IF i > 1 THEN <<"\n">> ELSE << >>) \o ls[i] \o JoinLines(ls, i + 1)

\* lines.splice(start..=end, [line]); lines.join("\n"); push('\n')
splice_tags(ls, start, end, line) ==
    JoinLines(SubSeq(ls, 1, start) \o <<line>> \o SubSeq(ls, end + 2, Len(ls)), 1)

\* what is written once the tags range of the lines is known
write_with_range(contents, ls, range, line) ==
    IF ~IsSome(range.start)
    THEN trim_end(contents) \o <<"\n">> \o line \o <<"\n">>
    ELSE splice_tags(ls, Unwrap(range.start),
                     IF IsSome(range.end) THEN Unwrap(range.end) ELSE Unwrap(range.start),
                     line)

write_line_into_toml(contents, line) ==
    IF trim(contents) = << >> THEN line \o <<"\n">>
    ELSE write_with_range(contents, lines(contents),
                          FindTagsRange(lines(contents), 1, None), line)

\* format!("tags = [{}]", format_tags(tags))
tags_line(tags) == <<"t", "a", "g", "s", " ", "=", " ", "[">> \o format_tags(tags) \o <<"]">>

write_tags_into_toml(contents, tags) == write_line_into_toml(contents, tags_line(tags))

(***************************************************************************)
(* The session of select_from_list: its world                              *)
(***************************************************************************)
Path_Projects == <<"/", "a", "/", "P", "r">>
Path_Widget == Path_Projects \o <<"/", "w", "i", "d">>
Path_Downloads == <<"/", "a", "/", "D", "o">>

\* the item lists a session is started with: deduplicated paths
Items3 == <<Path_Projects, Path_Widget, Path_Downloads>>
Items2 == <<Path_Projects, Path_Widget>>
Paths == Range(Items3)

Tag_infra == <<"i", "n">>
Tag_demo == <<"d", "e">>

\* the sidecar files at the start of the session
InitialFiles ==
    [p \in Paths |->
        IF p = Path_Widget THEN Some(write_tags_into_toml(<< >>, <<Tag_infra, Tag_demo>>))
        ELSE Some(write_tags_into_toml(<< >>, <<Tag_infra>>))]

\* what `stat -f "%m %B %Sm"` prints for a path: None when the command fails
StatOutput(p) ==
    IF p = Path_Projects THEN Some([m |-> 2, b |-> 1])
    ELSE IF p = Path_Widget THEN Some([m |-> 3, b |-> 0])
    ELSE None

\* the path whose stat command never returns, in the sessions with a hung fetch
HungPath == Path_Projects

\* whether a path lies inside a git repository
InRepo(p) == p = Path_Projects

\* the query strings the user's edits produce
Query_empty == << >>
Query_tag == <<"#", "i">>
Queries == {Query_empty, Query_tag}
\* a query of one path-scoped token and a query of one generic token
Query_path == <<"@", "o">>
Query_generic == <<"w">>
ScopedQueries == {Query_path, Query_generic}

\* the characters the user types into the tag input
TagChars == {"d"}

\* results_area.height of the terminal
ListHeight == 1
\* the longest tag input typed
MaxTagInput == 1
\* the number of tag-edit commits written in a session
MaxSaves == 1
\* the number of preview threads alive at once
MaxPreviewThreads == 3
\* the number of Ctrl+S presses in a session
MaxSortPresses == 3

VARIABLES
    pc,                 \* where the control loop is: "tick", "poll", "returned", "failed"
    input,              \* input.value(): the query
    sort_mode,
    sort_presses,       \* Ctrl+S presses so far
    focus,
    filtered,
    selected,
    list_offset,
    meta_cache,
    date_cache,
    date_in_flight,
    tag_cache,
    tag_in_flight,
    tag_scan_started,
    preview_cache,
    preview_path,
    in_flight,
    preview_text,
    git_text,
    tag_edit_path,
    tag_edit_tags,
    tag_input,
    tag_suggestions,
    date_threads,       \* worker threads: a bag of the paths each has still to fetch
    tag_threads,
    preview_threads,
    date_rx,            \* results sent and not yet received
    tag_rx,
    preview_rx,
    files,              \* the sidecar file of each path: None when absent
    saves,              \* tag-edit commits written so far
    items,              \* the item list of the session: fixed once built
    fn_in,              \* the arguments of a function under test
    fn_out              \* its result

loopVars == <<pc, input, sort_mode, sort_presses, focus, filtered, selected, list_offset>>
dateVars == <<meta_cache, date_cache, date_in_flight, date_threads, date_rx>>
tagVars == <<tag_cache, tag_in_flight, tag_scan_started, tag_threads, tag_rx>>
previewVars == <<preview_cache, preview_path, in_flight, preview_text, git_text,
                 preview_threads, preview_rx>>
editVars == <<tag_edit_path, tag_edit_tags, tag_input, tag_suggestions, files, saves>>
fnVars == <<fn_in, fn_out>>
sessionVars == <<items, loopVars, dateVars, tagVars, previewVars, editVars>>
vars == <<sessionVars, fnVars>>

\* build_placeholder_text, build_preview_text, build_git_text: the text shown
build_placeholder_text(path, message) == [kind |-> message, path |-> path]
build_preview_text(path) == [kind |-> "preview", path |-> Some(path)]
build_git_text(path) ==
    IF InRepo(path) THEN Some([kind |-> "git", path |-> Some(path)]) ELSE None

parse_epoch(value) == IF value <= 0 THEN None ELSE Some(value)

DATE_PLACEHOLDER == "---- -- -- --:--"

fetch_metadata(path) ==
    LET out == StatOutput(path)
    IN  IF IsSome(out)
        THEN [path |-> path, display |-> Some("date"),
              modified_epoch |-> parse_epoch(Unwrap(out).m),
              created_epoch |-> parse_epoch(Unwrap(out).b)]
        ELSE [path |-> path, display |-> None,
              modified_epoch |-> None, created_epoch |-> None]

read_tags_for_path(fs, path) ==
    IF IsSome(fs[path]) THEN parse_tags_from_toml(Unwrap(fs[path])) ELSE << >>

SessionInitWith(list, fs) ==
    /\ items = list
    /\ pc = "tick"
    /\ input = Query_empty
    /\ sort_mode = "Match"
    /\ sort_presses = 0
    /\ focus = "Search"
    /\ filtered = filter_and_sort(list, Query_empty, "Match", EmptyMap, EmptyMap)
    /\ selected = 0
    /\ list_offset = 0
    /\ meta_cache = EmptyMap
    /\ date_cache = EmptyMap
    /\ date_in_flight = {}
    /\ tag_cache = EmptyMap
    /\ tag_in_flight = {}
    /\ tag_scan_started = FALSE
    /\ preview_cache = EmptyMap
    /\ preview_path = None
    /\ in_flight = None
    /\ preview_text = build_placeholder_text(None, "No selection")
    /\ git_text = None
    /\ tag_edit_path = None
    /\ tag_edit_tags = << >>
    /\ tag_input = << >>
    /\ tag_suggestions = << >>
    /\ date_threads = EmptyBag
    /\ tag_threads = EmptyBag
    /\ preview_threads = EmptyBag
    /\ date_rx = << >>
    /\ tag_rx = << >>
    /\ preview_rx = << >>
    /\ files = fs
    /\ saves = 0

SessionInit(list) == SessionInitWith(list, InitialFiles)

Init == SessionInit(Items2) /\ fn_in = None /\ fn_out = None

(***************************************************************************)
(* Enrichment scheduler                                                    *)
(***************************************************************************)
\* thread::spawn of a worker that fetches the paths of `work` in order
SpawnThread(threads, work) == threads (+) SetToBag({work})

\* thread::spawn of a preview worker.  There is no timeout and no cancellation: of the
\* workers alive at once MaxPreviewThreads are followed, one spawned beyond them is
\* taken never to send its result
SpawnPreviewThread(threads, work) ==
    IF BagCardinality(threads) < MaxPreviewThreads THEN SpawnThread(threads, work)
    ELSE threads

RECURSIVE SpawnEach(_, _, _)
SpawnEach(threads, paths, i) ==
    IF i > Len(paths) THEN threads
    ELSE SpawnEach(SpawnThread(threads, <<paths[i]>>), paths, i + 1)

\* the paths a windowed or bulk request dispatches: not cached, not in flight
RECURSIVE MissingFrom(_, _, _, _, _)
MissingFrom(paths, i, cache, flying, missing) ==
    IF i > Len(paths) THEN missing
    ELSE IF paths[i] \in DOMAIN cache \/ paths[i] \in flying
         THEN MissingFrom(paths, i + 1, cache, flying, missing)
         ELSE MissingFrom(paths, i + 1, cache, flying \cup {paths[i]}, Append(missing, paths[i]))

\* one thread per missing path
ensure_dates_for_paths(paths, cache, flying, threads) ==
    LET missing == MissingFrom(paths, 1, cache, flying, << >>)
    IN  [in_flight |-> flying \cup Range(missing),
         threads |-> SpawnEach(threads, missing, 1)]

\* a variant of ensure_tags_for_paths that does not consult the in-flight set
ensure_tags_for_paths_unchecked(paths, cache, flying, threads) ==
    LET missing == MissingFrom(paths, 1, cache, {}, << >>)
    IN  [in_flight |-> flying \cup Range(missing),
         threads |-> SpawnEach(threads, missing, 1)]

ensure_tags_for_paths(paths, cache, flying, threads) ==
    LET missing == MissingFrom(paths, 1, cache, flying, << >>)
    IN  [in_flight |-> flying \cup Range(missing),
         threads |-> SpawnEach(threads, missing, 1)]

\* one thread that fetches every missing path in turn
spawn_bulk_tag_fetch(list, cache, flying, threads) ==
    LET missing == MissingFrom(list, 1, cache, flying, << >>)
    IN  [in_flight |-> flying \cup Range(missing),
         threads |-> IF missing = << >> THEN threads ELSE SpawnThread(threads, missing)]

spawn_bulk_metadata_fetch(list, cache, flying, threads) ==
    LET missing == MissingFrom(list, 1, cache, flying, << >>)
    IN  [in_flight |-> flying \cup Range(missing),
         threads |-> IF missing = << >> THEN threads ELSE SpawnThread(threads, missing)]

RECURSIVE DrainPreview_always_shown(_, _, _, _)
DrainPreview_always_shown(rx, i, current, st) ==
    IF i > Len(rx) THEN st
    ELSE DrainPreview_always_shown(rx, i + 1, current,
             [st EXCEPT
                !.cache = MapInsert(st.cache, rx[i].path, rx[i].data),
                !.text = rx[i].data.preview,
                !.git = rx[i].data.git,
                !.path = Some(rx[i].path),
                !.in_flight = IF st.in_flight = Some(rx[i].path) THEN None
                              ELSE st.in_flight])

\* while let Ok(result) = preview_rx.try_recv()
RECURSIVE DrainPreview(_, _, _, _)
DrainPreview(rx, i, current, st) ==
    IF i > Len(rx) THEN st
    ELSE LET result == rx[i]
             shown == current = Some(result.path)
         IN  DrainPreview(rx, i + 1, current,
                 [st EXCEPT
                    !.cache = MapInsert(st.cache, result.path, result.data),
                    !.text = IF shown THEN result.data.preview ELSE st.text,
                    !.git = IF shown THEN result.data.git ELSE st.git,
                    !.path = IF shown THEN Some(result.path) ELSE st.path,
                    !.in_flight = IF st.in_flight = Some(result.path) THEN None
                                  ELSE st.in_flight])

RECURSIVE DrainDates_dropping_failed(_, _, _)
DrainDates_dropping_failed(rx, i, st) ==
    IF i > Len(rx) THEN st
    ELSE IF ~IsSome(rx[i].display)
         THEN DrainDates_dropping_failed(rx, i + 1,
                  [st EXCEPT !.in_flight = st.in_flight \ {rx[i].path}])
    ELSE DrainDates_dropping_failed(rx, i + 1,
             [date_cache |-> MapInsert(st.date_cache, rx[i].path, Unwrap(rx[i].display)),
              meta_cache |-> MapInsert(st.meta_cache, rx[i].path,
                                 [modified_epoch |-> rx[i].modified_epoch,
                                  created_epoch |-> rx[i].created_epoch]),
              in_flight |-> st.in_flight \ {rx[i].path}])

\* a variant of the date drain that leaves the in-flight set as it is
RECURSIVE DrainDates_keeping_in_flight(_, _, _)
DrainDates_keeping_in_flight(rx, i, st) ==
    IF i > Len(rx) THEN st
    ELSE LET result == rx[i]
         IN  DrainDates_keeping_in_flight(rx, i + 1,
                 [date_cache |-> MapInsert(st.date_cache, result.path,
                                     IF IsSome(result.display) THEN Unwrap(result.display)
                                     ELSE DATE_PLACEHOLDER),
                  meta_cache |-> MapInsert(st.meta_cache, result.path,
                                     [modified_epoch |-> result.modified_epoch,
                                      created_epoch |-> result.created_epoch]),
                  in_flight |-> st.in_flight])

\* while let Ok(result) = date_rx.try_recv()
RECURSIVE DrainDates(_, _, _)
DrainDates(rx, i, st) ==
    IF i > Len(rx) THEN st
    ELSE LET result == rx[i]
         IN  DrainDates(rx, i + 1,
                 [date_cache |-> MapInsert(st.date_cache, result.path,
                                     IF IsSome(result.display) THEN Unwrap(result.display)
                                     ELSE DATE_PLACEHOLDER),
                  meta_cache |-> MapInsert(st.meta_cache, result.path,
                                     [modified_epoch |-> result.modified_epoch,
                                      created_epoch |-> result.created_epoch]),
                  in_flight |-> st.in_flight \ {result.path}])

RECURSIVE DrainTags_keeping_last(_, _, _)
DrainTags_keeping_last(rx, i, st) ==
    IF i > Len(rx) THEN st
    ELSE DrainTags_keeping_last(rx, i + 1,
             [cache |-> MapInsert(EmptyMap, rx[i].path, rx[i].tags),
              in_flight |-> st.in_flight \ {rx[i].path}])

\* while let Ok(result) = tag_rx.try_recv()
RECURSIVE DrainTags(_, _, _)
DrainTags(rx, i, st) ==
    IF i > Len(rx) THEN st
    ELSE DrainTags(rx, i + 1,
             [cache |-> MapInsert(st.cache, rx[i].path, rx[i].tags),
              in_flight |-> st.in_flight \ {rx[i].path}])

\* Option::unwrap_or
unwrap_or(o, default) == IF IsSome(o) THEN Unwrap(o) ELSE default

\* a variant of the selection update that goes back to the first row
SelectionIn_first_row(selected_path, sel, new_list) ==
    [filtered |-> new_list, selected |-> 0]

\* selected = match selected_path { Some(path) => index_for_path(..).unwrap_or(0),
\*                                  None => adjust_selected_index(selected, filtered.len()) }
SelectionIn(selected_path, sel, new_list) ==
    [filtered |-> new_list,
     selected |-> IF IsSome(selected_path)
                  THEN unwrap_or(index_for_path(items, new_list, Unwrap(selected_path)), 0)
                  ELSE adjust_selected_index(sel, Len(new_list))]

\* a variant of the re-evaluation that keeps the list it had
ReevaluateKeepingPath_stale(list, sel, query, mode, metas, tags) ==
    [filtered |-> list, selected |-> sel]

\* the re-evaluation that keeps the selection on its path
ReevaluateKeepingPath(list, sel, query, mode, metas, tags) ==
    SelectionIn(current_selection_path(items, list, sel), sel,
                filter_and_sort(items, query, mode, metas, tags))

\* a variant of the focus fallback that leaves the focus where it is
focus_fallback_none(fcs, git, edit_path) == fcs

\* if focus == Git && git_text.is_none() { Preview }; if focus == TagEdit &&
\* tag_edit_path.is_none() { Preview }
focus_fallback(fcs, git, edit_path) ==
    IF fcs = "Git" /\ ~IsSome(git) THEN "Preview"
    ELSE IF fcs = "TagEdit" /\ ~IsSome(edit_path) THEN "Preview"
    ELSE fcs

\* match current.as_deref() { .. }: the preview shown follows the selection
PreviewSync(current, st) ==
    IF ~IsSome(current)
    THEN IF IsSome(st.path) \/ IsSome(st.in_flight)
         THEN [st EXCEPT !.text = build_placeholder_text(None, "No selection"),
                         !.git = None, !.path = None, !.in_flight = None]
         ELSE st
    ELSE LET path == Unwrap(current)
         IN  IF st.path = Some(path) THEN st
             ELSE IF path \in DOMAIN st.cache
                  THEN [st EXCEPT !.text = st.cache[path].preview,
                                  !.git = st.cache[path].git,
                                  !.path = Some(path)]
             ELSE IF st.in_flight # Some(path)
                  THEN [st EXCEPT !.text = build_placeholder_text(Some(path), "Loading preview..."),
                                  !.git = Some(build_placeholder_text(Some(path),
                                                                      "Loading git info...")),
                                  !.path = Some(path),
                                  !.in_flight = Some(path),
                                  !.threads = SpawnPreviewThread(st.threads, <<path>>)]
             ELSE st

\* one pass of the loop body, from its top to the event poll
Tick ==
    /\ pc = "tick"
    /\ \E current \in {current_selection_path(items, filtered, selected)} :
       \E query_uses_tags \in {needs_tags(parse_query_tokens(input))} :
       \E pv \in {DrainPreview(preview_rx, 1, current,
                      [cache |-> preview_cache, text |-> preview_text, git |-> git_text,
                       path |-> preview_path, in_flight |-> in_flight,
                       threads |-> preview_threads])} :
       \E dt \in {DrainDates(date_rx, 1,
                      [date_cache |-> date_cache, meta_cache |-> meta_cache,
                       in_flight |-> date_in_flight])} :
       \E resort_needed \in {date_rx # << >> /\ uses_time(sort_mode)} :
       \E tg \in {DrainTags(tag_rx, 1, [cache |-> tag_cache, in_flight |-> tag_in_flight])} :
       \E tags_changed \in {tag_rx # << >>} :
       \E scan \in {query_uses_tags /\ ~tag_scan_started} :
       \E bulk \in {IF scan
                    THEN spawn_bulk_tag_fetch(items, tg.cache, tg.in_flight, tag_threads)
                    ELSE [in_flight |-> tg.in_flight, threads |-> tag_threads]} :
       \E sel1 \in {IF resort_needed
                    THEN ReevaluateKeepingPath(filtered, selected, input, sort_mode,
                                               dt.meta_cache, tg.cache)
                    ELSE [filtered |-> filtered, selected |-> selected]} :
       \E sel2 \in {IF tags_changed /\ query_uses_tags
                    THEN ReevaluateKeepingPath(sel1.filtered, sel1.selected, input, sort_mode,
                                               dt.meta_cache, tg.cache)
                    ELSE sel1} :
       \E sync \in {PreviewSync(current, pv)} :
       \E offset \in {compute_list_window_offset(sel2.selected, list_offset, ListHeight,
                                                 Len(sel2.filtered))} :
       \E visible_paths \in {visible_paths_for_window(items, sel2.filtered, offset,
                                                      ListHeight)} :
       \E ed \in {ensure_dates_for_paths(visible_paths, dt.date_cache, dt.in_flight,
                                         date_threads)} :
       \E et \in {ensure_tags_for_paths(visible_paths, tg.cache, bulk.in_flight,
                                        bulk.threads)} :
           /\ preview_cache' = sync.cache
           /\ preview_text' = sync.text
           /\ git_text' = sync.git
           /\ preview_path' = sync.path
           /\ in_flight' = sync.in_flight
           /\ preview_threads' = sync.threads
           /\ preview_rx' = << >>
           /\ date_cache' = dt.date_cache
           /\ meta_cache' = dt.meta_cache
           /\ date_in_flight' = ed.in_flight
           /\ date_threads' = ed.threads
           /\ date_rx' = << >>
           /\ tag_cache' = tg.cache
           /\ tag_in_flight' = et.in_flight
           /\ tag_threads' = et.threads
           /\ tag_rx' = << >>
           /\ tag_scan_started' = (tag_scan_started \/ scan)
           /\ filtered' = sel2.filtered
           /\ selected' = sel2.selected
           /\ list_offset' = offset
           /\ focus' = focus_fallback(focus, sync.git, tag_edit_path)
           /\ pc' = "poll"
    /\ UNCHANGED <<input, sort_mode, sort_presses, editVars, fnVars, items>>

(***************************************************************************)
(* Worker threads                                                          *)
(***************************************************************************)
\* a thread that has fetched the first path of its work goes on with the rest
AfterFetch(threads, work) ==
    (threads (-) SetToBag({work}))
        (+) (IF Len(work) > 1 THEN SetToBag({Tail(work)}) ELSE EmptyBag)

\* a metadata worker: fetch_metadata(path), tx.send(meta)
DateFetch(work) ==
    /\ date_rx' = Append(date_rx, fetch_metadata(work[1]))
    /\ date_threads' = AfterFetch(date_threads, work)
    /\ UNCHANGED <<loopVars, meta_cache, date_cache, date_in_flight, tagVars, previewVars,
                   editVars, fnVars, items>>

DateWorker == \E work \in BagToSet(date_threads) : DateFetch(work)

\* the metadata workers when the stat of HungPath never returns: run_command_output
\* waits for the command without a timeout, the worker fetching that path stays in it
DateWorkerWithHang ==
    \E work \in BagToSet(date_threads) : work[1] # HungPath /\ DateFetch(work)

\* a tag worker: read_tags_for_path(path), tx.send(TagResult)
TagWorker ==
    /\ \E work \in BagToSet(tag_threads) :
          /\ tag_rx' = Append(tag_rx, [path |-> work[1],
                                       tags |-> read_tags_for_path(files, work[1])])
          /\ tag_threads' = AfterFetch(tag_threads, work)
    /\ UNCHANGED <<loopVars, dateVars, tag_cache, tag_in_flight, tag_scan_started,
                   previewVars, editVars, fnVars, items>>

\* a preview worker: build_preview_text, build_git_text, tx.send(PreviewResult)
PreviewWorker ==
    /\ \E work \in BagToSet(preview_threads) :
          /\ preview_rx' = Append(preview_rx,
                               [path |-> work[1],
                                data |-> [preview |-> build_preview_text(work[1]),
                                          git |-> build_git_text(work[1])]])
          /\ preview_threads' = AfterFetch(preview_threads, work)
    /\ UNCHANGED <<loopVars, dateVars, tagVars, preview_cache, preview_path, in_flight,
                   preview_text, git_text, editVars, fnVars, items>>

(***************************************************************************)
(* Tag editing                                                             *)
(***************************************************************************)
StartsWith(s, prefix) == Len(prefix) <= Len(s) /\ SubSeq(s, 1, Len(prefix)) = prefix

Str_org == <<"o", "r", "g", "/">>

\* list.sort() of a set of strings
RECURSIVE SortedStrings(_)
SortedStrings(set) ==
    IF set = {} THEN << >>
    ELSE LET least == CHOOSE x \in set : \A y \in set : StrCmp(x, y) # "Greater"
         IN  <<least>> \o SortedStrings(set \ {least})

\* a variant of collect_tag_suggestions that keeps the tags under "org/"
collect_tag_suggestions_with_org(cache) ==
    SortedStrings(UNION {Range(cache[p]) : p \in DOMAIN cache})

collect_tag_suggestions(cache) ==
    SortedStrings({t \in UNION {Range(cache[p]) : p \in DOMAIN cache} :
                      ~StartsWith(t, Str_org)})

\* a variant of commit_tag_input that appends without looking at the working set
commit_tag_input_appending(text, tags, suggestions) ==
    LET raw == trim(text)
        lower == to_lowercase(raw)
        hits == SelectSeq(suggestions, LAMBDA tag : StartsWith(to_lowercase(tag), lower))
        chosen == IF hits # << >> THEN hits[1] ELSE raw
    IN  IF raw = << >> THEN [input |-> text, tags |-> tags]
        ELSE [input |-> << >>, tags |-> Append(tags, chosen)]

commit_tag_input(text, tags, suggestions) ==
    LET raw == trim(text)
        lower == to_lowercase(raw)
        hits == SelectSeq(suggestions, LAMBDA tag : StartsWith(to_lowercase(tag), lower))
        chosen == IF hits # << >> THEN hits[1] ELSE raw
    IN  IF raw = << >> THEN [input |-> text, tags |-> tags]
        ELSE [input |-> << >>,
              tags |-> IF \E i \in 1..Len(tags) : tags[i] = chosen THEN tags
                       ELSE Append(tags, chosen)]

\* the file save_tags_for_path writes
save_tags_for_path(fs, path, tags) ==
    [fs EXCEPT ![path] =
        Some(write_tags_into_toml(IF IsSome(fs[path]) THEN Unwrap(fs[path]) ELSE << >>, tags))]

(***************************************************************************)
(* Events read after the poll                                              *)
(***************************************************************************)
\* event::poll timed out: no event this pass
PollTimeout ==
    /\ pc = "poll"
    /\ pc' = "tick"
    /\ UNCHANGED <<input, sort_mode, sort_presses, focus, filtered, selected, list_offset,
                   dateVars, tagVars, previewVars, editVars, fnVars, items>>

\* Esc or Ctrl+C: return Ok(None)
KeyEsc ==
    /\ pc = "poll"
    /\ pc' = "returned"
    /\ UNCHANGED <<input, sort_mode, sort_presses, focus, filtered, selected, list_offset,
                   dateVars, tagVars, previewVars, editVars, fnVars, items>>

\* Enter outside tag editing: return the selected item
KeyEnterSelect ==
    /\ pc = "poll"
    /\ focus # "TagEdit"
    /\ selected < Len(filtered)
    /\ pc' = "returned"
    /\ UNCHANGED <<input, sort_mode, sort_presses, focus, filtered, selected, list_offset,
                   dateVars, tagVars, previewVars, editVars, fnVars, items>>

\* Ctrl+T: open tag editing on the selection
KeyCtrlT ==
    /\ pc = "poll"
    /\ focus # "TagEdit"
    /\ LET path == current_selection_path(items, filtered, selected)
       IN  IF IsSome(path)
           THEN /\ tag_edit_path' = path
                /\ tag_edit_tags' = read_tags_for_path(files, Unwrap(path))
                /\ tag_input' = << >>
                /\ tag_suggestions' = collect_tag_suggestions(tag_cache)
                /\ focus' = "TagEdit"
           ELSE UNCHANGED <<tag_edit_path, tag_edit_tags, tag_input, tag_suggestions, focus>>
    /\ pc' = "tick"
    /\ UNCHANGED <<input, sort_mode, sort_presses, filtered, selected, list_offset,
                   dateVars, tagVars, previewVars, files, saves, fnVars, items>>

\* Ctrl+S: the next sort mode
KeyCtrlS ==
    /\ pc = "poll"
    /\ sort_presses < MaxSortPresses
    /\ sort_presses' = sort_presses + 1
    /\ \E mode \in {sort_mode_next(sort_mode)} :
       \E bulk_dates \in {IF uses_time(mode)
                          THEN spawn_bulk_metadata_fetch(items, date_cache, date_in_flight,
                                                         date_threads)
                          ELSE [in_flight |-> date_in_flight, threads |-> date_threads]} :
       \E scan \in {needs_tags(parse_query_tokens(input)) /\ ~tag_scan_started} :
       \E bulk_tags \in {IF scan
                         THEN spawn_bulk_tag_fetch(items, tag_cache, tag_in_flight,
                                                   tag_threads)
                         ELSE [in_flight |-> tag_in_flight, threads |-> tag_threads]} :
           /\ sort_mode' = mode
           /\ filtered' = filter_and_sort(items, input, mode, meta_cache, tag_cache)
           /\ selected' = 0
           /\ list_offset' = 0
           /\ date_in_flight' = bulk_dates.in_flight
           /\ date_threads' = bulk_dates.threads
           /\ tag_in_flight' = bulk_tags.in_flight
           /\ tag_threads' = bulk_tags.threads
           /\ tag_scan_started' = (tag_scan_started \/ scan)
    /\ pc' = "tick"
    /\ UNCHANGED <<input, focus, meta_cache, date_cache, date_rx, tag_cache, tag_rx,
                   previewVars, editVars, fnVars, items>>

KeyUp ==
    /\ pc = "poll"
    /\ focus = "Search"
    /\ selected' = IF selected > 0 THEN selected - 1 ELSE selected
    /\ pc' = "tick"
    /\ UNCHANGED <<input, sort_mode, sort_presses, focus, filtered, list_offset,
                   dateVars, tagVars, previewVars, editVars, fnVars, items>>

KeyDown ==
    /\ pc = "poll"
    /\ focus = "Search"
    /\ selected' = IF selected + 1 < Len(filtered) THEN selected + 1 ELSE selected
    /\ pc' = "tick"
    /\ UNCHANGED <<input, sort_mode, sort_presses, focus, filtered, list_offset,
                   dateVars, tagVars, previewVars, editVars, fnVars, items>>

\* input.handle_event changed the query to q: filter again, selection to the top
EditQueryTo(q) ==
    /\ pc = "poll"
    /\ focus = "Search"
    /\ input' = q
    /\ filtered' = filter_and_sort(items, q, sort_mode, meta_cache, tag_cache)
    /\ selected' = 0
    /\ list_offset' = 0
    /\ pc' = "tick"
    /\ UNCHANGED <<sort_mode, sort_presses, focus, dateVars, tagVars, previewVars, editVars,
                   fnVars, items>>

\* a variant of the query edit that keeps the selection on its path
EditQuery_keeping_path ==
    /\ pc = "poll"
    /\ focus = "Search"
    /\ \E q \in Queries \ {input} :
       \E sel \in {ReevaluateKeepingPath(filtered, selected, q, sort_mode, meta_cache,
                                         tag_cache)} :
          /\ input' = q
          /\ filtered' = sel.filtered
          /\ selected' = sel.selected
    /\ list_offset' = 0
    /\ pc' = "tick"
    /\ UNCHANGED <<sort_mode, sort_presses, focus, dateVars, tagVars, previewVars, editVars,
                   fnVars, items>>

\* a key that changes the query
EditQuery == \E q \in Queries \ {input} : EditQueryTo(q)

\* a key that changes the query to one scoped to paths or to one generic token
EditQueryScoped == \E q \in ScopedQueries \ {input} : EditQueryTo(q)

\* Enter while editing tags: commit, save, close
TagEditEnterFailed_cache_first(done) ==
    /\ IsSome(tag_edit_path)
    /\ tag_edit_tags' = done.tags
    /\ tag_input' = done.input
    /\ tag_cache' = MapInsert(tag_cache, Unwrap(tag_edit_path), done.tags)
    /\ pc' = "failed"
    /\ UNCHANGED <<files, saves, focus, tag_edit_path, filtered, selected>>

\* save_tags_for_path(..)? returns the error of fs::read_to_string or fs::write:
\* the statements after it are not run and select_from_list returns the error
TagEditEnterFailed(done) ==
    /\ IsSome(tag_edit_path)
    /\ tag_edit_tags' = done.tags
    /\ tag_input' = done.input
    /\ pc' = "failed"
    /\ UNCHANGED <<files, saves, tag_cache, focus, tag_edit_path, filtered, selected>>

\* a variant of Enter that saves the working set for the path selected now
TagEditEnter_on_selection ==
    /\ pc = "poll"
    /\ focus = "TagEdit"
    /\ \E done \in {commit_tag_input(tag_input, tag_edit_tags, tag_suggestions)} :
       \E target \in {current_selection_path(items, filtered, selected)} :
          \/ /\ IsSome(target) => saves < MaxSaves
             /\ \E new_cache \in {IF IsSome(target)
                                  THEN MapInsert(tag_cache, Unwrap(target), done.tags)
                                  ELSE tag_cache} :
                \E sel \in {ReevaluateKeepingPath(filtered, selected, input, sort_mode,
                                                  meta_cache, new_cache)} :
                    /\ files' = IF IsSome(target)
                                THEN save_tags_for_path(files, Unwrap(target), done.tags)
                                ELSE files
                    /\ saves' = IF IsSome(target) THEN saves + 1 ELSE saves
                    /\ tag_cache' = new_cache
                    /\ focus' = "Preview"
                    /\ tag_edit_path' = None
                    /\ tag_edit_tags' = << >>
                    /\ tag_input' = << >>
                    /\ filtered' = sel.filtered
                    /\ selected' = sel.selected
                    /\ pc' = "tick"
          \/ TagEditEnterFailed(done)
    /\ UNCHANGED <<input, sort_mode, sort_presses, list_offset, dateVars, tag_in_flight,
                   tag_scan_started, tag_threads, tag_rx, previewVars, tag_suggestions,
                   fnVars, items>>

TagEditEnter ==
    /\ pc = "poll"
    /\ focus = "TagEdit"
    /\ \E done \in {commit_tag_input(tag_input, tag_edit_tags, tag_suggestions)} :
          \/ /\ IsSome(tag_edit_path) => saves < MaxSaves
             /\ \E new_cache \in {IF IsSome(tag_edit_path)
                                  THEN MapInsert(tag_cache, Unwrap(tag_edit_path), done.tags)
                                  ELSE tag_cache} :
                \E sel \in {ReevaluateKeepingPath(filtered, selected, input, sort_mode,
                                                  meta_cache, new_cache)} :
                    /\ files' = IF IsSome(tag_edit_path)
                                THEN save_tags_for_path(files, Unwrap(tag_edit_path), done.tags)
                                ELSE files
                    /\ saves' = IF IsSome(tag_edit_path) THEN saves + 1 ELSE saves
                    /\ tag_cache' = new_cache
                    /\ focus' = "Preview"
                    /\ tag_edit_path' = None
                    /\ tag_edit_tags' = << >>
                    /\ tag_input' = << >>
                    /\ filtered' = sel.filtered
                    /\ selected' = sel.selected
                    /\ pc' = "tick"
          \/ TagEditEnterFailed(done)
    /\ UNCHANGED <<input, sort_mode, sort_presses, list_offset, dateVars, tag_in_flight,
                   tag_scan_started, tag_threads, tag_rx, previewVars, tag_suggestions,
                   fnVars, items>>

\* a variant of Tab that leaves tag editing
TagEditTab_closing ==
    /\ pc = "poll"
    /\ focus = "TagEdit"
    /\ LET done == commit_tag_input(tag_input, tag_edit_tags, tag_suggestions)
       IN  /\ tag_edit_tags' = done.tags
           /\ tag_input' = done.input
    /\ focus' = "Preview"
    /\ pc' = "tick"
    /\ UNCHANGED <<input, sort_mode, sort_presses, filtered, selected, list_offset, dateVars, tagVars,
                   previewVars, tag_edit_path, tag_suggestions, files, saves, fnVars, items>>

\* Tab while editing tags: commit and go on
TagEditTab ==
    /\ pc = "poll"
    /\ focus = "TagEdit"
    /\ LET done == commit_tag_input(tag_input, tag_edit_tags, tag_suggestions)
       IN  /\ tag_edit_tags' = done.tags
           /\ tag_input' = done.input
    /\ pc' = "tick"
    /\ UNCHANGED <<input, sort_mode, sort_presses, focus, filtered, selected, list_offset, dateVars, tagVars,
                   previewVars, tag_edit_path, tag_suggestions, files, saves, fnVars, items>>

\* Backspace while editing tags
TagEditBackspace ==
    /\ pc = "poll"
    /\ focus = "TagEdit"
    /\ IF tag_input = << >>
       THEN /\ tag_edit_tags' = SubSeq(tag_edit_tags, 1, Len(tag_edit_tags) - 1)
            /\ UNCHANGED tag_input
       ELSE /\ tag_input' = SubSeq(tag_input, 1, Len(tag_input) - 1)
            /\ UNCHANGED tag_edit_tags
    /\ pc' = "tick"
    /\ UNCHANGED <<input, sort_mode, sort_presses, focus, filtered, selected, list_offset, dateVars, tagVars,
                   previewVars, tag_edit_path, tag_suggestions, files, saves, fnVars, items>>

\* a character typed while editing tags
TagEditType ==
    /\ pc = "poll"
    /\ focus = "TagEdit"
    /\ Len(tag_input) < MaxTagInput
    /\ \E c \in TagChars : tag_input' = Append(tag_input, c)
    /\ pc' = "tick"
    /\ UNCHANGED <<input, sort_mode, sort_presses, focus, filtered, selected, list_offset, dateVars, tagVars,
                   previewVars, tag_edit_path, tag_edit_tags, tag_suggestions, files, saves,
                   fnVars, items>>

\* a key or click that only moves the focus to `target`
FocusMove(from, target) ==
    /\ pc = "poll"
    /\ focus \in from
    /\ focus' = target
    /\ pc' = "tick"
    /\ UNCHANGED <<input, sort_mode, sort_presses, filtered, selected, list_offset,
                   dateVars, tagVars, previewVars, editVars, fnVars, items>>

\* Right in the search box, the cursor at the end of the input
SearchKeyRight == FocusMove({"Search"}, "Preview")
\* Left in the Preview or Git panel
PanelKeyLeft == FocusMove({"Preview", "Git"}, "Search")
\* Up in the Preview panel, scrolled to the top
PreviewKeyUp == FocusMove({"Preview"}, "Search")
\* Right or Down in the Preview panel (its text fits the panel)
PreviewKeyRight == IsSome(git_text) /\ FocusMove({"Preview"}, "Git")
\* Right or Up in the Git panel
GitKeyRight == FocusMove({"Git"}, "Preview")
\* a left click inside the list, the Git panel, the Preview panel
ClickList == FocusMove({"Search", "Preview", "Git", "TagEdit"}, "Search")
ClickGit == IsSome(git_text) /\ FocusMove({"Search", "Preview", "Git", "TagEdit"}, "Git")
ClickPreview == FocusMove({"Search", "Preview", "Git", "TagEdit"}, "Preview")

\* a variant of the wheel turned down that moves on without looking at the list
MouseScrollDown_unguarded ==
    /\ pc = "poll"
    /\ ~IsSome(git_text)
    /\ selected' = selected + 1
    /\ pc' = "tick"
    /\ UNCHANGED <<input, sort_mode, sort_presses, focus, filtered, list_offset,
                   dateVars, tagVars, previewVars, editVars, fnVars, items>>

\* the mouse wheel over the results: reached only when there is no Git panel
MouseScrollUp ==
    /\ pc = "poll"
    /\ ~IsSome(git_text)
    /\ selected' = IF selected > 0 THEN selected - 1 ELSE selected
    /\ pc' = "tick"
    /\ UNCHANGED <<input, sort_mode, sort_presses, focus, filtered, list_offset,
                   dateVars, tagVars, previewVars, editVars, fnVars, items>>

MouseScrollDown ==
    /\ pc = "poll"
    /\ ~IsSome(git_text)
    /\ selected' = IF selected + 1 < Len(filtered) THEN selected + 1 ELSE selected
    /\ pc' = "tick"
    /\ UNCHANGED <<input, sort_mode, sort_presses, focus, filtered, list_offset,
                   dateVars, tagVars, previewVars, editVars, fnVars, items>>

(***************************************************************************)
(* Sessions                                                                *)
(***************************************************************************)
\* every event and every worker
Next ==
    \/ Tick
    \/ PollTimeout
    \/ KeyEsc
    \/ KeyEnterSelect
    \/ KeyCtrlT
    \/ KeyCtrlS
    \/ KeyUp
    \/ KeyDown
    \/ EditQuery
    \/ TagEditEnter
    \/ TagEditTab
    \/ TagEditBackspace
    \/ TagEditType
    \/ SearchKeyRight
    \/ PanelKeyLeft
    \/ PreviewKeyUp
    \/ PreviewKeyRight
    \/ GitKeyRight
    \/ ClickList
    \/ ClickGit
    \/ ClickPreview
    \/ MouseScrollUp
    \/ MouseScrollDown
    \/ DateWorker
    \/ TagWorker
    \/ PreviewWorker

Spec == Init /\ [][Next]_vars

\* a session of three items
Init3 == SessionInit(Items3) /\ fn_in = None /\ fn_out = None

\* browsing: the user moves down the list, edits the query and cycles the sort mode
\* while the date and tag workers run
NextFetch ==
    \/ Tick
    \/ PollTimeout
    \/ KeyCtrlS
    \/ KeyDown
    \/ EditQuery
    \/ DateWorker
    \/ TagWorker

SpecFetch == Init /\ [][NextFetch]_vars

\* previews: the user moves up and down the list and edits the query while the
\* preview workers run
NextPreview ==
    \/ Tick
    \/ PollTimeout
    \/ KeyUp
    \/ KeyDown
    \/ EditQuery
    \/ PreviewWorker

SpecPreview == Init /\ [][NextPreview]_vars

\* tag editing in a session of three items while the tag workers run
NextEdit ==
    \/ Tick
    \/ PollTimeout
    \/ KeyDown
    \/ EditQuery
    \/ KeyCtrlT
    \/ TagEditEnter
    \/ TagEditBackspace
    \/ PanelKeyLeft
    \/ TagWorker

SpecEdit == Init3 /\ [][NextEdit]_vars

\* every source of a re-evaluation: dates arriving, tags arriving, a tag-edit commit,
\* a query edit, a sort-mode cycle
NextResolve ==
    \/ Tick
    \/ PollTimeout
    \/ KeyCtrlS
    \/ KeyDown
    \/ EditQuery
    \/ KeyCtrlT
    \/ TagEditEnter
    \/ TagEditBackspace
    \/ DateWorker
    \/ TagWorker

NextTagScan == Tick \/ PollTimeout \/ KeyCtrlS \/ EditQueryScoped \/ TagWorker
SpecTagScan == Init3 /\ [][NextTagScan]_vars

\* a session whose first item is the only one the path-scoped query keeps
InitDownloadsFirst ==
    SessionInit(<<Path_Downloads, Path_Projects, Path_Widget>>) /\ fn_in = None /\ fn_out = None
NextDateScan == Tick \/ PollTimeout \/ KeyCtrlS \/ EditQueryScoped \/ DateWorker
SpecDateScan == InitDownloadsFirst /\ [][NextDateScan]_vars

\* a session over a path whose fetches fail: stat fails for it, it is in no git
\* repository and it has no sidecar file
FilesWithoutDownloads == [InitialFiles EXCEPT ![Path_Downloads] = None]
InitFailing ==
    /\ SessionInitWith(<<Path_Downloads, Path_Projects>>, FilesWithoutDownloads)
    /\ fn_in = None
    /\ fn_out = None
NextFailing ==
    \/ Tick \/ PollTimeout \/ KeyUp \/ KeyDown \/ KeyCtrlS
    \/ DateWorker \/ TagWorker \/ PreviewWorker
SpecFailing == InitFailing /\ [][NextFailing]_vars

\* a session in which one stat never returns.  The loop goes on: a pass is always
\* made, event::poll returns after its timeout; a worker not waiting for the hung
\* command goes on
NextHang == Tick \/ PollTimeout \/ KeyCtrlS \/ EditQueryScoped \/ DateWorkerWithHang
\* the loop body reaches the poll; event::poll returns, with an event or without
LoopPass == pc = "tick" /\ pc' = "poll"
PollReturns == pc = "poll" /\ pc' = "tick"
SpecHang ==
    /\ InitDownloadsFirst
    /\ [][NextHang]_vars
    /\ WF_pc(LoopPass)
    /\ WF_pc(PollReturns)
    /\ WF_vars(DateWorkerWithHang)

SpecResolve == Init /\ [][NextResolve]_vars

\* the keyboard and the mouse move the selection and the focus while tag and
\* preview results arrive
NextPanels ==
    \/ Tick
    \/ PollTimeout
    \/ KeyUp
    \/ KeyDown
    \/ EditQuery
    \/ KeyCtrlT
    \/ MouseScrollUp
    \/ MouseScrollDown
    \/ ClickList
    \/ ClickGit
    \/ TagWorker
    \/ PreviewWorker

SpecPanels == Init /\ [][NextPanels]_vars

\* a tag edit during which Ctrl+S and the keyboard move the selection
NextRetarget ==
    \/ Tick
    \/ PollTimeout
    \/ KeyDown
    \/ KeyCtrlS
    \/ KeyCtrlT
    \/ TagEditBackspace
    \/ TagEditEnter
    \/ TagWorker

SpecRetarget == Init /\ [][NextRetarget]_vars

\* a session in which every worker ends: the loop goes on making passes, event::poll
\* returns, and a worker thread that has work to do does it
NextLive ==
    \/ Tick
    \/ PollTimeout
    \/ KeyUp
    \/ KeyDown
    \/ DateWorker
    \/ TagWorker
    \/ PreviewWorker

\* a worker thread with a path to fetch gets to the end of the fetch
DateWorkerFetches ==
    \E work \in BagToSet(date_threads) : date_threads' = AfterFetch(date_threads, work)
TagWorkerFetches ==
    \E work \in BagToSet(tag_threads) : tag_threads' = AfterFetch(tag_threads, work)
PreviewWorkerFetches ==
    \E work \in BagToSet(preview_threads) :
        preview_threads' = AfterFetch(preview_threads, work)

SpecLive ==
    /\ Init
    /\ [][NextLive]_vars
    /\ WF_pc(LoopPass)
    /\ WF_pc(PollReturns)
    /\ WF_date_threads(DateWorkerFetches)
    /\ WF_tag_threads(TagWorkerFetches)
    /\ WF_preview_threads(PreviewWorkerFetches)

\* tag editing with the keyboard and the mouse while the tag workers run
NextTagEdit ==
    \/ Tick
    \/ PollTimeout
    \/ KeyDown
    \/ KeyCtrlT
    \/ TagEditType
    \/ TagEditTab
    \/ TagEditEnter
    \/ ClickList
    \/ TagWorker

\* a session in which the sidecar file of the first item holds a tag under "org/"
Tag_org == Str_org \o <<"x">>
FilesWithOrgTag ==
    [InitialFiles EXCEPT
        ![Path_Projects] = Some(write_tags_into_toml(<< >>, <<Tag_infra, Tag_org>>))]
InitTagEdit ==
    /\ SessionInitWith(Items2, FilesWithOrgTag)
    /\ fn_in = None
    /\ fn_out = None

SpecTagEdit == InitTagEdit /\ [][NextTagEdit]_vars

(***************************************************************************)
(* Properties of the sessions                                              *)
(***************************************************************************)
Occurrences(seq, x) == Cardinality({i \in 1..Len(seq) : seq[i] = x})
ResultsFor(rx, p) == Cardinality({i \in 1..Len(rx) : rx[i].path = p})

RECURSIVE FetchesIn(_, _, _)
FetchesIn(threads, works, p) ==
    IF works = {} THEN 0
    ELSE LET work == CHOOSE w \in works : TRUE
         IN  CopiesIn(work, threads) * Occurrences(work, p)
                 + FetchesIn(threads, works \ {work}, p)

\* the outstanding fetches of a path: those a worker thread has still to make and
\* those whose result is sent and not yet received
Outstanding(threads, rx, p) == FetchesIn(threads, BagToSet(threads), p) + ResultsFor(rx, p)
DatesOutstanding(p) == Outstanding(date_threads, date_rx, p)
TagsOutstanding(p) == Outstanding(tag_threads, tag_rx, p)
PreviewsOutstanding(p) == Outstanding(preview_threads, preview_rx, p)

SelectedPath == current_selection_path(items, filtered, selected)

\* a step of the loop body whose drains trigger a re-evaluation, or the Enter that
\* commits a tag edit
BackgroundReevaluation ==
    /\ pc = "tick"
    /\ pc' = "poll"
    /\ \/ date_rx # << >> /\ uses_time(sort_mode)
       \/ tag_rx # << >> /\ needs_tags(parse_query_tokens(input))
CommitReevaluation ==
    /\ pc = "poll"
    /\ pc' = "tick"
    /\ focus = "TagEdit"
    /\ focus' = "Preview"
\* a query edit or a sort-mode cycle
UserReevaluation ==
    /\ pc = "poll"
    /\ pc' = "tick"
    /\ input' # input \/ sort_mode' # sort_mode

\* C1: for the date kind and the tag kind there is at most one outstanding fetch per
\* path, and a step dispatches a fetch only for a path neither cached nor in flight
C1_OneFetchPerPath ==
    [][\A p \in Paths :
          /\ DatesOutstanding(p)' <= 1
          /\ TagsOutstanding(p)' <= 1
          /\ DatesOutstanding(p)' > DatesOutstanding(p)
                => p \notin DOMAIN date_cache /\ p \notin date_in_flight
          /\ TagsOutstanding(p)' > TagsOutstanding(p)
                => p \notin DOMAIN tag_cache /\ p \notin tag_in_flight]_vars

\* the window is on a path whose tags and dates are being fetched, after the bulk
\* tag scan and the bulk date scan were triggered: the pass dispatched nothing for it
C1_Witness ==
    /\ pc = "poll"
    /\ tag_scan_started
    /\ uses_time(sort_mode)
    /\ SelectedPath = Some(Path_Widget)
    /\ list_offset = selected
    /\ Path_Widget \in tag_in_flight
    /\ Path_Widget \in date_in_flight
    /\ TagsOutstanding(Path_Widget) = 1
    /\ DatesOutstanding(Path_Widget) = 1

\* C2: for the preview+VCS kind there is at most one outstanding fetch per path
\* after any sequence of selection changes
C2_OnePreviewFetchPerPath == \A p \in Paths : PreviewsOutstanding(p) <= 1

\* C3: a cache entry is inserted at most once: a pass of the loop inserts the date
\* and the preview entry of a path at most once and never for a path that has its
\* entry, and writes at most one background tag result per path
C3_WriteOnce ==
    [][(pc = "tick" /\ pc' = "poll") =>
          \A p \in Paths :
             /\ ResultsFor(date_rx, p) + (IF p \in DOMAIN date_cache THEN 1 ELSE 0) <= 1
             /\ ResultsFor(preview_rx, p) + (IF p \in DOMAIN preview_cache THEN 1 ELSE 0) <= 1
             /\ ResultsFor(tag_rx, p) <= 1]_vars

\* C6: a re-evaluation triggered by arriving dates, by arriving tags or by a tag-edit
\* commit leaves the selection on the previously selected path when the new list
\* still holds it
C6_SelectionFollowsPath ==
    [][((BackgroundReevaluation \/ CommitReevaluation)
          /\ IsSome(SelectedPath)
          /\ IsSome(index_for_path(items, filtered', Unwrap(SelectedPath))))
        => selected' = Unwrap(index_for_path(items, filtered', Unwrap(SelectedPath)))]_vars

\* a tag edit of the second row was committed under a tag query: the row is still
\* listed and still selected
C6_Witness ==
    /\ pc = "tick"
    /\ saves = 1
    /\ focus = "Preview"
    /\ input = Query_tag
    /\ files[Path_Widget] # InitialFiles[Path_Widget]
    /\ filtered = <<0, 1>>
    /\ selected = 1

C8_ClampWhenPathGone ==
    [][((BackgroundReevaluation \/ CommitReevaluation)
          /\ IsSome(SelectedPath)
          /\ ~IsSome(index_for_path(items, filtered', Unwrap(SelectedPath))))
        => selected' = adjust_selected_index(selected, Len(filtered'))]_vars

\* C12: on a tag-edit commit the tag cache entry of the edited path is written only
\* after the sidecar file was written; a failed write leaves the tag cache as it was
C12_CacheAfterWrite ==
    [][/\ pc' = "failed" => tag_cache' = tag_cache
       /\ (pc = "poll" /\ tag_cache' # tag_cache) =>
              /\ IsSome(tag_edit_path)
              /\ saves' = saves + 1
              /\ files' = save_tags_for_path(files, Unwrap(tag_edit_path),
                                             tag_cache'[Unwrap(tag_edit_path)])]_vars

\* the write of a commit failed while the tags edited differ from the cached ones
C12_Witness ==
    /\ pc = "failed"
    /\ IsSome(tag_edit_path)
    /\ Unwrap(tag_edit_path) \in DOMAIN tag_cache
    /\ tag_edit_tags # tag_cache[Unwrap(tag_edit_path)]

\* C13: a failed write of the tag file ends only the commit: the control loop of
\* the session goes on
C13_SessionKeepsRunning == pc # "failed"

\* a query holds a tag-scoped or a generic token: a word that is not '@'-prefixed
\* and is more than a bare '#'
HasTagOrGenericToken(query) ==
    \E i \in 1..Len(split_whitespace(query)) :
        /\ split_whitespace(query)[i][1] # "@"
        /\ split_whitespace(query)[i] # <<"#">>
ScanStarts == ~tag_scan_started /\ tag_scan_started'
\* the paths of the rows drawn after the step
VisiblePaths == Range(visible_paths_for_window(items, filtered', list_offset', ListHeight))

\* C14: the bulk tag scan is started at most once, at the first pass of the loop at
\* which the query holds a tag-scoped or generic token, and then every item is cached
\* or in flight; no other step puts a path outside the drawn rows in flight, and a
\* query that is empty or made of '@' tokens never starts the scan
C14_BulkTagScanOnce ==
    [][/\ tag_scan_started => tag_scan_started'
       /\ (pc = "tick" /\ pc' = "poll" /\ ~tag_scan_started /\ HasTagOrGenericToken(input))
             => tag_scan_started'
       /\ ScanStarts =>
             /\ HasTagOrGenericToken(input)
             /\ Range(items) \subseteq (DOMAIN tag_cache' \cup tag_in_flight')
       /\ ~ScanStarts => (tag_in_flight' \ tag_in_flight) \subseteq VisiblePaths]_vars

\* the scan was started by a generic token and the query is now path-scoped only
C14_Witness ==
    /\ pc = "poll"
    /\ tag_scan_started
    /\ input = Query_path
    /\ \E work \in BagToSet(tag_threads) : Len(work) > 1

SortModeCycled == pc = "poll" /\ sort_mode' # sort_mode
\* the items with no date cache entry and no date fetch in flight
DatesMissing == Range(items) \ (DOMAIN date_cache \cup date_in_flight)

\* C15: a Ctrl+S that lands on a time-based mode marks in flight every item that is
\* neither in the date cache nor in flight and hands them all to one new worker; a
\* Ctrl+S that lands on Match, AlphaAsc or AlphaDesc dispatches nothing
C15_BulkDateScanOnTimeMode ==
    [][SortModeCycled =>
          IF sort_mode' \in {"CreatedAsc", "CreatedDesc", "ModifiedAsc", "ModifiedDesc"}
          THEN /\ date_in_flight' = date_in_flight \cup DatesMissing
               /\ DatesMissing = {} => date_threads' = date_threads
               /\ DatesMissing # {} =>
                     \E work \in BagToSet(date_threads') :
                         /\ Range(work) = DatesMissing
                         /\ Len(work) = Cardinality(DatesMissing)
                         /\ date_threads' = date_threads (+) SetToBag({work})
          ELSE date_in_flight' = date_in_flight /\ date_threads' = date_threads]_vars

\* Ctrl+S has landed on CreatedAsc: the item of the drawn row was fetched before,
\* the two others are in flight with one worker
C15_Witness ==
    /\ pc = "tick"
    /\ sort_mode = "CreatedAsc"
    /\ Path_Downloads \in DOMAIN date_cache
    /\ date_in_flight = {Path_Projects, Path_Widget}
    /\ <<Path_Projects, Path_Widget>> \in BagToSet(date_threads)

\* C16: a fetch that failed or found nothing still sends its result; the pass that
\* receives a result caches it (the placeholder date with absent epochs, the empty
\* tag list, the absent VCS text) and takes the path out of the in-flight set, and
\* no later step dispatches a fetch of that kind for a cached path
C16_FailedFetchCachedNotRetried ==
    [][/\ pc' = pc =>
             \A p \in Paths :
                /\ DatesOutstanding(p)' = DatesOutstanding(p)
                /\ TagsOutstanding(p)' = TagsOutstanding(p)
                /\ PreviewsOutstanding(p)' = PreviewsOutstanding(p)
       /\ (pc = "tick" /\ pc' = "poll") =>
             /\ \A i \in 1..Len(date_rx) :
                   /\ date_rx[i].path \in DOMAIN date_cache'
                   /\ date_rx[i].path \notin date_in_flight'
                   /\ ~IsSome(date_rx[i].display) =>
                         /\ date_cache'[date_rx[i].path] = "---- -- -- --:--"
                         /\ meta_cache'[date_rx[i].path] =
                               [modified_epoch |-> None, created_epoch |-> None]
             /\ \A i \in 1..Len(tag_rx) :
                   /\ tag_rx[i].path \in DOMAIN tag_cache'
                   /\ tag_rx[i].path \notin tag_in_flight'
                   /\ tag_cache'[tag_rx[i].path] = tag_rx[i].tags
             /\ \A i \in 1..Len(preview_rx) :
                   /\ preview_rx[i].path \in DOMAIN preview_cache'
                   /\ in_flight' # Some(preview_rx[i].path)
                   /\ preview_cache'[preview_rx[i].path].git = preview_rx[i].data.git
       /\ \A p \in Paths :
             /\ p \in DOMAIN date_cache =>
                   DatesOutstanding(p)' <= DatesOutstanding(p) /\ p \notin date_in_flight'
             /\ p \in DOMAIN tag_cache =>
                   TagsOutstanding(p)' <= TagsOutstanding(p) /\ p \notin tag_in_flight'
             /\ p \in DOMAIN preview_cache =>
                   PreviewsOutstanding(p)' <= PreviewsOutstanding(p) /\ in_flight' # Some(p)]_vars

\* the three fetches of the path failed or found nothing, their results are cached
\* and the path is selected again with nothing in flight for it
C16_Witness ==
    /\ pc = "poll"
    /\ SelectedPath = Some(Path_Downloads)
    /\ Path_Downloads \in DOMAIN date_cache
    /\ date_cache[Path_Downloads] = DATE_PLACEHOLDER
    /\ Path_Downloads \in DOMAIN tag_cache
    /\ tag_cache[Path_Downloads] = << >>
    /\ Path_Downloads \in DOMAIN preview_cache
    /\ preview_cache[Path_Downloads].git = None
    /\ Path_Projects \in DOMAIN preview_cache
    /\ DatesOutstanding(Path_Downloads) = 0
    /\ TagsOutstanding(Path_Downloads) = 0
    /\ PreviewsOutstanding(Path_Downloads) = 0

\* C17: when the fetch of one path never completes, the fetch dispatched for any
\* other path still delivers its result: the path leaves the in-flight set
C17_OtherFetchesDelivered ==
    \A p \in Paths \ {HungPath} : (p \in date_in_flight) ~> (p \notin date_in_flight)

\* what the pass shows when it receives no preview result
ShownWithoutResults ==
    PreviewSync(SelectedPath,
                [cache |-> preview_cache, text |-> preview_text, git |-> git_text,
                 path |-> preview_path, in_flight |-> in_flight,
                 threads |-> preview_threads])

\* C18: a pass caches every preview result it receives; a result for the selected
\* path becomes the preview and VCS text shown, and results for other paths leave
\* the text shown as the pass would have left it without them
C18_ResultShownOnlyIfSelected ==
    [][(pc = "tick" /\ pc' = "poll") =>
          /\ \A i \in 1..Len(preview_rx) :
                /\ preview_rx[i].path \in DOMAIN preview_cache'
                /\ preview_cache'[preview_rx[i].path] = preview_rx[i].data
                /\ Some(preview_rx[i].path) = SelectedPath =>
                      /\ preview_text' = preview_rx[i].data.preview
                      /\ git_text' = preview_rx[i].data.git
          /\ (\A i \in 1..Len(preview_rx) : Some(preview_rx[i].path) # SelectedPath) =>
                /\ preview_text' = ShownWithoutResults.text
                /\ git_text' = ShownWithoutResults.git]_vars

\* the result for the first item was received while the second was selected and
\* its own preview was being fetched: the text shown is still the placeholder
C18_Witness ==
    /\ pc = "poll"
    /\ SelectedPath = Some(Path_Widget)
    /\ Path_Projects \in DOMAIN preview_cache
    /\ Path_Widget \notin DOMAIN preview_cache
    /\ in_flight = Some(Path_Widget)
    /\ preview_text = build_placeholder_text(Some(Path_Widget), "Loading preview...")

\* the working set after the commit step of Tab and of Enter
CommittedTags == commit_tag_input(tag_input, tag_edit_tags, tag_suggestions).tags
EnterCompleted == TagEditEnter /\ pc' = "tick"

\* C27: a Tab step while editing commits the buffer into the working set, stays in
\* TagEdit and leaves the sidecar files and the tag cache alone; an Enter step that
\* completes commits the buffer, writes the working set to the sidecar file of the
\* edited path, sets its tag cache entry to the working set and leaves TagEdit; with
\* an empty buffer the working set is the one before the key
C27_TabContinuesEnterCloses ==
    [][/\ TagEditTab =>
            /\ tag_edit_tags' = CommittedTags
            /\ tag_input = << >> => tag_edit_tags' = tag_edit_tags
            /\ focus' = "TagEdit"
            /\ tag_edit_path' = tag_edit_path
            /\ files' = files
            /\ tag_cache' = tag_cache
       /\ EnterCompleted =>
            /\ files' = save_tags_for_path(files, Unwrap(tag_edit_path), CommittedTags)
            /\ read_tags_for_path(files', Unwrap(tag_edit_path)) = CommittedTags
            /\ tag_cache' = MapInsert(tag_cache, Unwrap(tag_edit_path), CommittedTags)
            /\ tag_input = << >> => tag_cache'[Unwrap(tag_edit_path)] = tag_edit_tags
            /\ focus' = "Preview"
            /\ tag_edit_path' = None
      ]_vars

\* Tab has committed the typed "d" into the working set of an edit that is still
\* open; nothing was saved and the tag cache does not hold the new tag
C27_Witness ==
    /\ focus = "TagEdit"
    /\ tag_edit_path = Some(Path_Projects)
    /\ tag_input = << >>
    /\ tag_edit_tags = <<Tag_infra, Tag_org, <<"d">>>>
    /\ saves = 0
    /\ files = FilesWithOrgTag
    /\ Path_Projects \in DOMAIN tag_cache
    /\ tag_cache[Path_Projects] = <<Tag_infra, Tag_org>>

\* C28: the edited path, the working set and the input buffer exist exactly while
\* the focus is TagEdit: outside TagEdit there is no edited path and the working
\* set and the buffer are empty, inside it there is an edited path
C28_EditStateExactlyInTagEdit ==
    pc # "failed" =>
        /\ focus = "TagEdit" => IsSome(tag_edit_path)
        /\ focus # "TagEdit" =>
              tag_edit_path = None /\ tag_edit_tags = << >> /\ tag_input = << >>

CachedTagsAll == UNION {Range(tag_cache[p]) : p \in DOMAIN tag_cache}
IsSortedSetOf(list, set) ==
    /\ Range(list) = set
    /\ \A i, j \in 1..Len(list) : i < j => StrCmp(list[i], list[j]) = "Less"
EditOpened == focus # "TagEdit" /\ focus' = "TagEdit"
EditGoesOn == focus = "TagEdit" /\ focus' = "TagEdit"

DrawnRows ==
    {items[filtered'[k] + 1] :
        k \in (list_offset' + 1)..Min2(list_offset' + ListHeight, Len(filtered'))}
\* the workers a step spawned
SpawnedIn(before, after) ==
    {work \in BagToSet(after) : CopiesIn(work, after) > CopiesIn(work, before)}
ForDrawnRowsOnly(before, after) ==
    \A work \in SpawnedIn(before, after) : Len(work) = 1 /\ work[1] \in DrawnRows

\* C30: after every pass of the loop each path of the scroll window is in the date
\* cache or in flight for its date, and in the tag cache or in flight for its tags;
\* the windowed requests of the pass put in flight, and spawn workers for, paths of
\* the window only
C30_WindowCachedOrInFlight ==
    [][LoopPass =>
          /\ DrawnRows \subseteq (DOMAIN date_cache' \cup date_in_flight')
          /\ DrawnRows \subseteq (DOMAIN tag_cache' \cup tag_in_flight')
          /\ (date_in_flight' \ date_in_flight) \subseteq DrawnRows
          /\ ForDrawnRowsOnly(date_threads, date_threads')
          /\ ~ScanStarts =>
                /\ (tag_in_flight' \ tag_in_flight) \subseteq DrawnRows
                /\ ForDrawnRowsOnly(tag_threads, tag_threads')
      ]_vars

\* a pass has drawn the first of two rows: its path is in flight for date and tags,
\* the path of the second row is neither cached nor in flight
C30_Witness ==
    /\ pc = "poll"
    /\ filtered = <<0, 1>>
    /\ list_offset = 0
    /\ Path_Projects \in date_in_flight
    /\ Path_Projects \in tag_in_flight
    /\ Path_Widget \notin (DOMAIN date_cache \cup date_in_flight)
    /\ Path_Widget \notin (DOMAIN tag_cache \cup tag_in_flight)

\* C33: at every pass and between passes the listed indices are filter_and_sort of
\* the current query, sort mode, sort metadata and tag cache: no query edit, sort
\* cycle, tag-edit commit or arrival of a date or tag result leaves the list stale
C33_ListNeverStale ==
    filtered = filter_and_sort(items, input, sort_mode, meta_cache, tag_cache)

\* under a time mode and a tag query the dates and tags of both items have arrived
\* and a tag edit was committed; the list is no longer the initial one
C33_Witness ==
    /\ pc = "poll"
    /\ uses_time(sort_mode)
    /\ input = Query_tag
    /\ DOMAIN meta_cache = Range(items)
    /\ DOMAIN tag_cache = Range(items)
    /\ saves = 1
    /\ filtered # AllIndices(items)

\* C34: in every state the selection index is inside the list: below its length
\* when the list is not empty, 0 when it is
C34_SelectionInBounds ==
    IF filtered = << >> THEN selected = 0 ELSE selected < Len(filtered)

\* the selection is on the last of two rows and there is no Git panel, so that the
\* wheel over the results acts on the selection
C34_Witness ==
    /\ pc = "poll"
    /\ filtered = <<0, 1>>
    /\ selected = 1
    /\ ~IsSome(git_text)
    /\ preview_path = Some(Path_Widget)

\* C39: once a pass has drawn the screen, the focus is Git only if there is Git
\* text to show and TagEdit only if an edited path is set
C39_FocusHasItsPanel ==
    pc = "poll" =>
        /\ focus = "Git" => IsSome(git_text)
        /\ focus = "TagEdit" => IsSome(tag_edit_path)

\* the Git panel had the focus while the preview of a path outside every
\* repository arrived: the pass took the Git text away and the focus, which only
\* the fallback moves to Preview in these sessions, is on Preview
C39_Witness ==
    /\ pc = "poll"
    /\ focus = "Preview"
    /\ preview_path = Some(Path_Widget)
    /\ Path_Widget \in DOMAIN preview_cache
    /\ ~IsSome(git_text)

\* C35: once a pass has drawn the screen with a row selected, the preview text and
\* the Git text shown are those of the selected path, its fetched data or its
\* loading placeholder, never those of another path
C35_PreviewOfSelection ==
    (pc = "poll" /\ IsSome(SelectedPath)) =>
        /\ preview_text.path = SelectedPath
        /\ IsSome(git_text) => git_text[1].path = SelectedPath

\* the paths whose sidecar file a commit of this session has rewritten
CommittedPaths == {p \in Range(items) : files[p] # InitialFiles[p]}
CommitsFor(p) == EnterCompleted /\ tag_edit_path = Some(p)

\* C36: a tag-edit commit for a path leaves the committed working set in the tag
\* cache entry of the path, and the entry stays as it is until the next commit for
\* the path: a tag result of a worker arriving later does not replace it
C36_CommittedEntryStays ==
    [][/\ \A p \in Range(items) :
            CommitsFor(p) => (p \in DOMAIN tag_cache' /\ tag_cache'[p] = CommittedTags)
       /\ \A p \in CommittedPaths :
            ~CommitsFor(p) =>
                (p \in DOMAIN tag_cache /\ p \in DOMAIN tag_cache'
                    /\ tag_cache'[p] = tag_cache[p])]_vars

\* C37: tag editing is opened on the path selected at Ctrl+T and stays on it
\* whatever happens to the selection; the commit of Enter writes the working set
\* to the sidecar file and the tag cache entry of that path and to no other
C37_CommitWritesTheOpenedPath ==
    [][/\ (focus # "TagEdit" /\ focus' = "TagEdit") => tag_edit_path' = SelectedPath
       /\ (focus = "TagEdit" /\ ~EnterCompleted) => tag_edit_path' = tag_edit_path
       /\ EnterCompleted =>
              \A p \in Range(items) :
                 IF tag_edit_path = Some(p)
                 THEN /\ files' = save_tags_for_path(files, p, CommittedTags)
                      /\ tag_cache' = MapInsert(tag_cache, p, CommittedTags)
                 ELSE /\ files'[p] = files[p]
                      /\ p \in DOMAIN tag_cache' <=> p \in DOMAIN tag_cache
                      /\ p \in DOMAIN tag_cache => tag_cache'[p] = tag_cache[p]]_vars

\* Enter has just committed the emptied tag list of the second item while Ctrl+S
\* had moved the selection to the first: the file of the second item is the one
\* rewritten
C37_Witness ==
    /\ pc = "tick"
    /\ focus = "Preview"
    /\ saves = 1
    /\ sort_presses > 0
    /\ SelectedPath = Some(Path_Projects)
    /\ CommittedPaths = {Path_Widget}
    /\ tag_cache[Path_Widget] = << >>

\* the fetched preview of the path is the one shown
ShowsFetchedPreview(p) ==
    /\ p \in DOMAIN preview_cache
    /\ preview_path = Some(p)
    /\ preview_text = preview_cache[p].preview
    /\ git_text = preview_cache[p].git

\* C40: when the loop and the workers go on, a path in the date or the tag
\* in-flight set is eventually cached and out of the set, and while the selection
\* stays on a path the preview shown eventually is the fetched preview of the path
C40_FetchesComplete ==
    /\ \A p \in Range(Items2) :
          (p \in date_in_flight) ~> (p \in DOMAIN date_cache /\ p \notin date_in_flight)
    /\ \A p \in Range(Items2) :
          (p \in tag_in_flight) ~> (p \in DOMAIN tag_cache /\ p \notin tag_in_flight)
    /\ \A p \in Range(Items2) : []<>(SelectedPath # Some(p) \/ ShowsFetchedPreview(p))

\* every date and tag fetch of the session was drained and the fetched preview of
\* the selected second item is shown
C40_Witness ==
    /\ pc = "poll"
    /\ SelectedPath = Some(Path_Widget)
    /\ ShowsFetchedPreview(Path_Widget)
    /\ date_in_flight = {}
    /\ tag_in_flight = {}
    /\ DOMAIN date_cache = Range(items)
    /\ DOMAIN tag_cache = Range(items)

(***************************************************************************)
(* filter_and_sort applied to bounded inputs                               *)
(***************************************************************************)
\* the values of an epoch field of a SortMeta
Epochs == {None, Some(100), Some(200)}
MetaValues == [modified_epoch : Epochs, created_epoch : Epochs]
\* the metadata caches: each path without an entry or with a SortMeta
MetaCaches == UNION {[D -> MetaValues] : D \in SUBSET Paths}
\* the tag cache once every sidecar file has been read
FullTagCache == [p \in Paths |-> read_tags_for_path(InitialFiles, p)]
\* the queries filter_and_sort is given: the session's and one of whitespace only
Query_blank == <<" ">>
SortQueries == Queries \cup {Query_blank}

InitSort ==
    /\ SessionInit(Items3)
    /\ fn_in \in [query : SortQueries, sort_mode : SortModes, meta_cache : MetaCaches]
    /\ fn_out = None

CallFilterAndSort ==
    /\ fn_out = None
    /\ fn_out' = Some(filter_and_sort(items, fn_in.query, fn_in.sort_mode, fn_in.meta_cache,
                                      FullTagCache))
    /\ UNCHANGED <<sessionVars, fn_in>>

SpecSort == InitSort /\ [][CallFilterAndSort]_vars

\* the ordered index list filter_and_sort returned
SortResult == Unwrap(fn_out)
\* the epoch a time-based mode compares, absent when the cache has no entry
RelevantEpoch(index) ==
    LET path == items[index + 1]
        meta == IF path \in DOMAIN fn_in.meta_cache THEN fn_in.meta_cache[path]
                ELSE DefaultMeta
    IN  IF fn_in.sort_mode \in {"CreatedAsc", "CreatedDesc"} THEN meta.created_epoch
        ELSE meta.modified_epoch
EmptyQueryGiven == tokens_is_empty(parse_query_tokens(fn_in.query))

\* C4: in every time-based sort mode an item whose relevant epoch is present is
\* ordered before every item whose relevant epoch is absent
C4_PresentBeforeAbsent ==
    (IsSome(fn_out) /\ uses_time(fn_in.sort_mode)) =>
        \A i, j \in 1..Len(SortResult) :
            (IsSome(RelevantEpoch(SortResult[i])) /\ ~IsSome(RelevantEpoch(SortResult[j])))
                => i < j

\* C5 as stated: for every sort mode an empty query returns the indices 0..n-1 in
\* their original order
C5_EmptyQueryOriginalOrder ==
    (IsSome(fn_out) /\ EmptyQueryGiven) => SortResult = AllIndices(items)

\* C5: an empty query returns every index 0..n-1 exactly once; in Match mode in the
\* original order, in every other mode in the order of that mode's comparator
C5_EmptyQueryAllIndices ==
    (IsSome(fn_out) /\ EmptyQueryGiven) =>
        /\ Len(SortResult) = Len(items)
        /\ Range(SortResult) = 0..(Len(items) - 1)
        /\ fn_in.sort_mode = "Match" => SortResult = AllIndices(items)
        /\ fn_in.sort_mode # "Match" =>
              \A i, j \in 1..Len(SortResult) :
                  i < j => compare_indices(SortResult[i], SortResult[j], items,
                                           fn_in.sort_mode, fn_in.meta_cache) # "Greater"

\* an empty query under a sort mode whose comparator moved an item
C5_Witness ==
    /\ IsSome(fn_out)
    /\ EmptyQueryGiven
    /\ fn_in.sort_mode = "ModifiedDesc"
    /\ SortResult # AllIndices(items)

(***************************************************************************)
(* The tag store applied to bounded inputs                                 *)
(***************************************************************************)
Tag_quote == <<"a", "\"", "b">>
Tag_hash == <<"a", "#", "b">>
Tag_bracket == <<"a", "]", "b">>
TomlTags == {Tag_infra, Tag_demo, Tag_quote, Tag_hash, Tag_bracket}

\* the longest TagSet written
MaxTags == 2
\* the TagSets: ordered lists of distinct non-empty tags
TagSets ==
    {S \in UNION {[1..n -> TomlTags] : n \in 0..MaxTags} :
        \A i, j \in 1..Len(S) : S[i] = S[j] => i = j}

\* sidecar contents: none, a tags line, another key, both, a tags array over lines
Toml_empty == << >>
Toml_tags == <<"t", "a", "g", "s", " ", "=", " ", "[", "\"", "x", "\"", "]", "\n">>
Toml_other == <<"k", " ", "=", " ", "1", "\n">>
Toml_both == Toml_other \o Toml_tags \o <<"z", " ", "=", " ", "2", "\n">>
Toml_multi == <<"t", "a", "g", "s", " ", "=", " ", "[", "\n",
                " ", "\"", "x", "\"", ",", "\n", "]", "\n">> \o Toml_other
TomlContents == {Toml_empty, Toml_tags, Toml_other, Toml_both, Toml_multi}

InitToml ==
    /\ SessionInit(Items2)
    /\ fn_in \in [contents : TomlContents, tags : TagSets]
    /\ fn_out = None

\* save_tags_for_path followed by read_tags_for_path
CallWriteThenParse ==
    /\ fn_out = None
    /\ \E written \in {write_tags_into_toml(fn_in.contents, fn_in.tags)} :
          fn_out' = Some([written |-> written, parsed |-> parse_tags_from_toml(written)])
    /\ UNCHANGED <<sessionVars, fn_in>>

SpecToml == InitToml /\ [][CallWriteThenParse]_vars

\* C10: parse_tags_from_toml(write_tags_into_toml(contents, S)) is exactly S
C10_RoundTrip == IsSome(fn_out) => Unwrap(fn_out).parsed = fn_in.tags

(***************************************************************************)
(* write_tags_into_toml applied to files made of known lines               *)
(***************************************************************************)
Line_k == <<"k", " ", "=", " ", "1">>
Line_z == <<"z", " ", "=", " ", "[", "2", "]">>
Line_y == <<"y", " ", "=", " ", "2">>
Line_blank == << >>
\* the lines before and after the tags assignment of a sidecar file
LinesBefore == {<< >>, <<Line_k>>}
LinesAfter == {<< >>, <<Line_z>>, <<Line_y, Line_blank>>}
\* the tags assignment of the file: none, on one line, over three lines, and the
\* line a commit of the tag a#b wrote
Assign_single == <<tags_line(<<Tag_infra>>)>>
Assign_multi == << <<"t", "a", "g", "s", " ", "=", " ", "[">>,
                   <<" ", "\"", "x", "\"", ",">>,
                   <<"]">> >>
Assign_hash == <<tags_line(<<Tag_hash>>)>>
Assignments == {<< >>, Assign_single, Assign_multi, Assign_hash}

\* the contents of a file of these lines, each ended by a newline
TomlFile(ls) == IF ls = << >> THEN << >> ELSE JoinLines(ls, 1)

InitFrame ==
    /\ SessionInit(Items2)
    /\ fn_in \in [before : LinesBefore, assignment : Assignments, after : LinesAfter,
                  tags : TagSets]
    /\ fn_out = None

\* save_tags_for_path: the contents written over those read
CallWriteTags ==
    /\ fn_out = None
    /\ fn_out' = Some(write_tags_into_toml(
                        TomlFile(fn_in.before \o fn_in.assignment \o fn_in.after),
                        fn_in.tags))
    /\ UNCHANGED <<sessionVars, fn_in>>

SpecFrame == InitFrame /\ [][CallWriteTags]_vars

\* C11: write_tags_into_toml changes only the tags assignment: the lines of an
\* existing assignment are replaced by the one new line and every other line is
\* kept in place; without an assignment every line is kept and the new line is
\* appended
C11_OnlyTagsChanged ==
    IsSome(fn_out) =>
        lines(Unwrap(fn_out)) =
            IF fn_in.assignment # << >>
            THEN fn_in.before \o <<tags_line(fn_in.tags)>> \o fn_in.after
            ELSE fn_in.before \o fn_in.after \o <<tags_line(fn_in.tags)>>

(***************************************************************************)
(* The drain loops applied to the results of three paths in every order    *)
(***************************************************************************)
\* the orders in which the workers of the three items send their results
ArrivalOrders == {order \in [1..Len(Items3) -> Paths] :
                     \A i, j \in 1..Len(Items3) : order[i] = order[j] => i = j}
\* the result each kind of worker sends for a path
DateResultOf(path) == fetch_metadata(path)
TagResultOf(path) == [path |-> path, tags |-> read_tags_for_path(InitialFiles, path)]
PreviewResultOf(path) ==
    [path |-> path,
     data |-> [preview |-> build_preview_text(path), git |-> build_git_text(path)]]

DateResults(order) == [i \in 1..Len(order) |-> DateResultOf(order[i])]
TagResults(order) == [i \in 1..Len(order) |-> TagResultOf(order[i])]
PreviewResults(order) == [i \in 1..Len(order) |-> PreviewResultOf(order[i])]

\* the caches after two passes: the first receives the results up to cut, the second
\* the others
DateCachesAfter(rx, cut) ==
    DrainDates(SubSeq(rx, cut + 1, Len(rx)), 1,
               DrainDates(SubSeq(rx, 1, cut), 1,
                          [date_cache |-> EmptyMap, meta_cache |-> EmptyMap,
                           in_flight |-> Paths]))
TagCacheAfter(rx, cut) ==
    DrainTags(SubSeq(rx, cut + 1, Len(rx)), 1,
              DrainTags(SubSeq(rx, 1, cut), 1, [cache |-> EmptyMap, in_flight |-> Paths]))
PreviewCacheAfter(rx, cut) ==
    DrainPreview(SubSeq(rx, cut + 1, Len(rx)), 1, Some(Path_Projects),
                 DrainPreview(SubSeq(rx, 1, cut), 1, Some(Path_Projects),
                              [cache |-> EmptyMap,
                               text |-> build_placeholder_text(None, "No selection"),
                               git |-> None, path |-> None, in_flight |-> None,
                               threads |-> EmptyBag]))
CachesAfter(dates, tags, previews, cut) ==
    [date_cache |-> DateCachesAfter(DateResults(dates), cut).date_cache,
     meta_cache |-> DateCachesAfter(DateResults(dates), cut).meta_cache,
     tag_cache |-> TagCacheAfter(TagResults(tags), cut).cache,
     preview_cache |-> PreviewCacheAfter(PreviewResults(previews), cut).cache]

InitDrain ==
    /\ SessionInit(Items3)
    /\ fn_in \in [dates : ArrivalOrders, tags : ArrivalOrders, previews : ArrivalOrders,
                  cut : 0..Len(Items3)]
    /\ fn_out = None

CallDrain ==
    /\ fn_out = None
    /\ fn_out' = Some(CachesAfter(fn_in.dates, fn_in.tags, fn_in.previews, fn_in.cut))
    /\ UNCHANGED <<sessionVars, fn_in>>

SpecDrain == InitDrain /\ [][CallDrain]_vars

\* C19: the caches left by the drains do not depend on the order in which the
\* results of different paths arrive, nor on the pass that receives them: every
\* order gives the caches that the order of the item list gives in one pass
C19_CachesIndependentOfOrder ==
    IsSome(fn_out) => Unwrap(fn_out) = CachesAfter(Items3, Items3, Items3, Len(Items3))

\* the results were received over two passes, in an order that is not the order in
\* which the fetches were dispatched
C19_Witness ==
    /\ IsSome(fn_out)
    /\ fn_in.cut = 1
    /\ fn_in.dates = <<Path_Downloads, Path_Widget, Path_Projects>>
    /\ fn_in.tags = <<Path_Widget, Path_Projects, Path_Downloads>>
    /\ fn_in.previews = <<Path_Downloads, Path_Projects, Path_Widget>>
    /\ DOMAIN Unwrap(fn_out).tag_cache = Paths

(***************************************************************************)
(* The matcher applied to bounded inputs                                   *)
(***************************************************************************)
\* the longest query and the longest text given to the matcher
MaxQueryLen == 2
MaxTextLen == 3
\* their characters: letters of both cases, in and outside ASCII, and a space
QueryChars == {"a", "b", "é", " "}
TextChars == {"a", "B", "É", "x", " "}
MatchQueries == UNION {[1..n -> QueryChars] : n \in 0..MaxQueryLen}
MatchTexts == UNION {[1..n -> TextChars] : n \in 0..MaxTextLen}

InitMatch ==
    /\ SessionInit(Items2)
    /\ fn_in \in [query : MatchQueries, text : MatchTexts]
    /\ fn_out = None

CallMatch ==
    /\ fn_out = None
    /\ fn_out' = Some([matched |-> fuzzy_match(fn_in.query, fn_in.text),
                       score |-> match_score(fn_in.query, fn_in.text)])
    /\ UNCHANGED <<sessionVars, fn_in>>

SpecMatch == InitMatch /\ [][CallMatch]_vars

\* two characters are the same letter when case is ignored
SameLetter(a, b) ==
    \/ a = b
    \/ {a, b} \in {{"a", "A"}, {"b", "B"}, {"x", "X"}, {"é", "É"}}
\* the characters of q occur in text in their order, case ignored
RECURSIVE IsSubsequence(_, _)
IsSubsequence(q, text) ==
    IF q = << >> THEN TRUE
    ELSE IF text = << >> THEN FALSE
    ELSE IF SameLetter(q[1], text[1]) THEN IsSubsequence(Tail(q), Tail(text))
    ELSE IsSubsequence(q, Tail(text))
QueryLetters == SelectSeq(fn_in.query, LAMBDA c : c # " ")

\* C20: fuzzy_match(Q, T) is true exactly when the characters of Q other than
\* whitespace occur in order in T, case ignored, and match_score(Q, T) is Some
\* exactly when fuzzy_match(Q, T) is true
C20_MatchIffSubsequence ==
    IsSome(fn_out) =>
        /\ Unwrap(fn_out).matched <=> IsSubsequence(QueryLetters, fn_in.text)
        /\ IsSome(Unwrap(fn_out).score) <=> Unwrap(fn_out).matched

\* C21: the score of an empty query, or of one of whitespace only, against a text T
\* is Some((0, 0, 0, 0, n)) with n the number of characters of T
C21_EmptyQueryScore ==
    (IsSome(fn_out) /\ QueryLetters = << >>) =>
        Unwrap(fn_out).score = Some(<<0, 0, 0, 0, Len(fn_in.text)>>)

\* a query of one space was scored against a text with a two-byte character
C21_Witness ==
    /\ IsSome(fn_out)
    /\ fn_in.query = <<" ">>
    /\ fn_in.text = <<"a", "É">>
    /\ IsSome(Unwrap(fn_out).score)

\* q occurs in text from its i-th character on, case ignored
OccursAt(q, text, i) ==
    /\ i + Len(q) - 1 <= Len(text)
    /\ \A k \in 1..Len(q) : SameLetter(q[k], text[i + k - 1])
OccursContiguously(q, text) == \E i \in 1..Len(text) : OccursAt(q, text, i)
\* the earliest positions (from 0) at which the characters of q occur in order in
\* text from its i-th character on
RECURSIVE EarliestPositions(_, _, _)
EarliestPositions(q, text, i) ==
    IF q = << >> \/ i > Len(text) THEN << >>
    ELSE IF SameLetter(q[1], text[i])
         THEN <<i - 1>> \o EarliestPositions(Tail(q), text, i + 1)
    ELSE EarliestPositions(q, text, i + 1)
RECURSIVE Unmatched(_, _)
Unmatched(positions, i) ==
    IF i >= Len(positions) THEN 0
    ELSE (positions[i + 1] - positions[i] - 1) + Unmatched(positions, i + 1)
MatchedAt == EarliestPositions(QueryLetters, fn_in.text, 1)

\* C22: a query that occurs in the text as a contiguous substring, case ignored,
\* scores penalty 0, gap 0 and span len(query) - 1; a query whose characters occur
\* in the text only apart scores penalty 1, the span from the first to the last
\* position of the earliest match and the gap counting the characters between them
C22_ContiguousOrApart ==
    IsSome(fn_out) =>
        /\ (fn_in.query # << >> /\ OccursContiguously(fn_in.query, fn_in.text)) =>
              /\ IsSome(Unwrap(fn_out).score)
              /\ Unwrap(Unwrap(fn_out).score)[1] = 0
              /\ Unwrap(Unwrap(fn_out).score)[2] = Len(fn_in.query) - 1
              /\ Unwrap(Unwrap(fn_out).score)[3] = 0
        /\ (/\ QueryLetters # << >>
            /\ IsSubsequence(QueryLetters, fn_in.text)
            /\ ~OccursContiguously(QueryLetters, fn_in.text)) =>
              /\ IsSome(Unwrap(fn_out).score)
              /\ Unwrap(Unwrap(fn_out).score)[1] = 1
              /\ Unwrap(Unwrap(fn_out).score)[2] = MatchedAt[Len(MatchedAt)] - MatchedAt[1]
              /\ Unwrap(Unwrap(fn_out).score)[3] = Unmatched(MatchedAt, 1)

(***************************************************************************)
(* match_score_for_path applied to one token and two paths                 *)
(***************************************************************************)
MaxTokenLen == 2
TokenChars == {"a", "b", "/"}
PathTokens == UNION {[1..n -> TokenChars] : n \in 0..MaxTokenLen}
ScoredPaths == {<<"a", "x", "b">>, <<"a", "b", "/", "x">>, <<"/", "a", "/", "b">>,
                <<"b", "/", "a">>, <<"a", "/">>, <<"x">>}

InitPathScore ==
    /\ SessionInit(Items2)
    /\ fn_in \in [token : PathTokens, path : ScoredPaths, other : ScoredPaths]
    /\ fn_out = None

CallMatchScoreForPath ==
    /\ fn_out = None
    /\ fn_out' = Some([score |-> match_score_for_path(fn_in.token, fn_in.path),
                       other |-> match_score_for_path(fn_in.token, fn_in.other)])
    /\ UNCHANGED <<sessionVars, fn_in>>

SpecPathScore == InitPathScore /\ [][CallMatchScoreForPath]_vars

LeafScore(path) == match_score(fn_in.token, entry_name(path))
FullScore(path) == match_score(fn_in.token, path)
Raised(score) == <<score[1] + 2, score[2], score[3], score[4], score[5]>>

\* C23: a path is scored by its leaf name when the leaf matches, and otherwise by
\* the full path with 2 added to the penalty; a path whose leaf matches scores
\* strictly lower than a path matched only through its full path
C23_LeafBeforePath ==
    IsSome(fn_out) =>
        /\ IsSome(LeafScore(fn_in.path)) => Unwrap(fn_out).score = LeafScore(fn_in.path)
        /\ (~IsSome(LeafScore(fn_in.path)) /\ IsSome(FullScore(fn_in.path))) =>
              Unwrap(fn_out).score = Some(Raised(Unwrap(FullScore(fn_in.path))))
        /\ (~IsSome(LeafScore(fn_in.path)) /\ ~IsSome(FullScore(fn_in.path))) =>
              Unwrap(fn_out).score = None
        /\ (/\ IsSome(LeafScore(fn_in.path))
            /\ ~IsSome(LeafScore(fn_in.other))
            /\ IsSome(Unwrap(fn_out).other)) =>
              TupleCmp(Unwrap(Unwrap(fn_out).score), Unwrap(Unwrap(fn_out).other)) = "Less"

\* the token "ab" was scored for a path whose leaf holds it apart and for a path
\* that holds it together in its directory only
C23_Witness ==
    /\ IsSome(fn_out)
    /\ fn_in.token = <<"a", "b">>
    /\ fn_in.path = <<"a", "x", "b">>
    /\ fn_in.other = <<"a", "b", "/", "x">>
    /\ Unwrap(fn_out).score = Some(<<1, 2, 1, 0, 3>>)
    /\ Unwrap(fn_out).other = Some(<<2, 1, 0, 0, 4>>)

(***************************************************************************)
(* filter_and_sort applied to lists, queries and tag caches                *)
(***************************************************************************)
Item_Projects == <<"/", "a", "/", "P", "r", "o", "j", "e", "c", "t", "s">>
Item_widget == <<"/", "a", "/", "P", "r", "o", "j", "e", "c", "t", "s", "/", "w", "i", "d", "g", "e", "t">>
Item_Downloads == <<"/", "a", "/", "D", "o", "w", "n", "l", "o", "a", "d", "s">>
ExampleItems == <<Item_Projects, Item_widget, Item_Downloads>>
\* one leaf holding "wd" apart, two holding it together, one path holding it across
\* a separator
TieItems == <<<<"/", "b", "/", "w", "x", "d">>, <<"/", "a", "/", "w", "d">>, <<"/", "c", "/", "w", "d">>, <<"/", "w", "/", "d">>>>
AccentItems == <<<<"/", "a", "/", "É">>, <<"/", "a", "/", "é">>>>
ItemLists == {ExampleItems, TieItems, AccentItems}
ListedPaths == UNION {Range(list) : list \in ItemLists}

Query_wid == <<"w", "i", "d">>
ListQueries == {Query_wid, <<"w", "d">>, <<"w">>, <<"é">>, Query_tag, <<"#", "w">>, <<"#", "é">>,
                <<"@", "a", " ", "w">>, <<"#", "i", " ", "w">>}

\* a cache with entries for some paths, one of them without tags, and a cache with
\* the same tags for every path
TagCache_some ==
    [p \in {Item_Projects, Item_widget, <<"/", "a", "/", "w", "d">>, <<"/", "a", "/", "É">>} |->
        IF p = Item_Projects THEN << >>
        ELSE IF p = Item_widget THEN <<Tag_infra, Tag_demo>>
        ELSE <<Tag_infra>>]
TagCache_all == [p \in ListedPaths |-> <<<<"w", "i">>>>]
TagCaches == {EmptyMap, TagCache_some, TagCache_all}

InitQuery ==
    /\ SessionInit(Items2)
    /\ fn_in \in [list : ItemLists, query : ListQueries, sort_mode : SortModes,
                   tag_cache : TagCaches]
    /\ fn_out = None

CallFilterAndSortOnList ==
    /\ fn_out = None
    /\ fn_out' = Some(filter_and_sort(fn_in.list, fn_in.query, fn_in.sort_mode, EmptyMap,
                                      fn_in.tag_cache))
    /\ UNCHANGED <<sessionVars, fn_in>>

SpecQuery == InitQuery /\ [][CallFilterAndSortOnList]_vars

GivenTokens == parse_query_tokens(fn_in.query)
CachedTags(index) == TagsOf(fn_in.tag_cache, fn_in.list[index + 1])
\* the composite score of the item at index
CompositeScore(index) == match_score_tokens(GivenTokens, fn_in.list[index + 1], CachedTags(index))
ScoredIndices == {index \in 0..(Len(fn_in.list) - 1) : IsSome(CompositeScore(index))}
InScoreOrder(a, b) ==
    \/ TupleCmp(Unwrap(CompositeScore(a)), Unwrap(CompositeScore(b))) = "Less"
    \/ /\ TupleCmp(Unwrap(CompositeScore(a)), Unwrap(CompositeScore(b))) = "Equal"
       /\ a < b

\* C24: in Match mode with a non-empty query the result holds exactly the items that
\* have a composite score, each once, in ascending order of score with the original
\* index breaking ties; of /a/Projects, /a/Projects/widget and /a/Downloads the
\* query "wid" keeps only /a/Projects/widget, with kind_penalty 0
C24_ExactlyTheScoredInOrder ==
    (IsSome(fn_out) /\ fn_in.sort_mode = "Match" /\ ~tokens_is_empty(GivenTokens)) =>
        /\ Range(Unwrap(fn_out)) = ScoredIndices
        /\ Len(Unwrap(fn_out)) = Cardinality(ScoredIndices)
        /\ \A i, j \in 1..Len(Unwrap(fn_out)) :
              i < j => InScoreOrder(Unwrap(fn_out)[i], Unwrap(fn_out)[j])
        /\ (fn_in.list = ExampleItems /\ fn_in.query = Query_wid) =>
              /\ Unwrap(fn_out) = <<1>>
              /\ Unwrap(CompositeScore(1))[1] = 0

\* every tag token of the query matches one of the tags cached for the item at index
TagTokensMatchCachedTags(index) ==
    \A i \in 1..Len(GivenTokens.tags) :
        \E t \in 1..Len(CachedTags(index)) :
            fuzzy_match(GivenTokens.tags[i], CachedTags(index)[t])
OnlyTagTokens == GivenTokens.folder = << >> /\ GivenTokens.any = << >>

\* C25: under a query with a tag token every listed item has cached tags, and each
\* tag token matches one of them; an item whose cached tags are empty or absent is
\* not listed, whatever its path; when the query has tag tokens only, the items
\* whose cached tags match are exactly the listed ones
C25_TagTokensAgainstCachedTags ==
    (IsSome(fn_out) /\ GivenTokens.tags # << >>) =>
        \A index \in 0..(Len(fn_in.list) - 1) :
            /\ index \in Range(Unwrap(fn_out)) =>
                  /\ CachedTags(index) # << >>
                  /\ TagTokensMatchCachedTags(index)
            /\ (OnlyTagTokens /\ TagTokensMatchCachedTags(index)) =>
                  index \in Range(Unwrap(fn_out))

\* the query "#w" listed nothing although two of the paths hold a "w", and no
\* cached tag does
C25_Witness ==
    /\ IsSome(fn_out)
    /\ fn_in.query = <<"#", "w">>
    /\ fn_in.list = ExampleItems
    /\ fn_in.tag_cache = TagCache_some
    /\ fn_in.sort_mode = "AlphaAsc"
    /\ Unwrap(fn_out) = << >>

(***************************************************************************)
(* commit_tag_input applied to bounded inputs                              *)
(***************************************************************************)
MaxBufferLen == 2
BufferChars == {"a", "B", " ", "É"}
Buffers == UNION {[1..n -> BufferChars] : n \in 0..MaxBufferLen}
WorkingSets == {<< >>, <<<<"a", "b">>>>, <<<<"A", "b">>>>, <<<<"b">>, <<"a", "b">>>>,
                <<<<"a">>>>, <<<<"a", "b">>, <<"a", "b">>>>}
\* suggestion lists in the order list.sort() leaves them in
SuggestionLists == {<< >>, <<<<"a", "b">>, <<"b">>>>, <<<<"A", "b">>, <<"a", "b">>>>,
                    <<<<"é", "a">>>>}

InitCommit ==
    /\ SessionInit(Items2)
    /\ fn_in \in [text : Buffers, tags : WorkingSets, suggestions : SuggestionLists]
    /\ fn_out = None

CallCommitTagInput ==
    /\ fn_out = None
    /\ fn_out' = Some(commit_tag_input(fn_in.text, fn_in.tags, fn_in.suggestions))
    /\ UNCHANGED <<sessionVars, fn_in>>

SpecCommit == InitCommit /\ [][CallCommitTagInput]_vars

\* the buffer without the whitespace around it
Typed == trim(fn_in.text)
HasPrefixIgnoringCase(tag, prefix) ==
    /\ Len(prefix) <= Len(tag)
    /\ \A k \in 1..Len(prefix) : SameLetter(tag[k], prefix[k])
Completing == {i \in 1..Len(fn_in.suggestions) : HasPrefixIgnoringCase(fn_in.suggestions[i], Typed)}
\* the first suggestion the typed text is a prefix of, else the typed text
Resolved ==
    IF Completing = {} THEN Typed
    ELSE fn_in.suggestions[CHOOSE i \in Completing : \A j \in Completing : i <= j]

\* C26: a buffer that is not empty once trimmed resolves to the first suggestion it
\* is a case-insensitive prefix of, or to the typed text; the resolved tag is
\* appended only if the working set holds no element equal to it; the buffer is
\* cleared; no tag occurs more often than before unless it did not occur at all
C26_CommitResolvesAndDeduplicates ==
    (IsSome(fn_out) /\ Typed # << >>) =>
        /\ Unwrap(fn_out).input = << >>
        /\ Unwrap(fn_out).tags =
              IF \E i \in 1..Len(fn_in.tags) : fn_in.tags[i] = Resolved
              THEN fn_in.tags ELSE Append(fn_in.tags, Resolved)
        /\ \A t \in Range(Unwrap(fn_out).tags) :
              \/ Occurrences(Unwrap(fn_out).tags, t) = Occurrences(fn_in.tags, t)
              \/ Occurrences(Unwrap(fn_out).tags, t) = 1

\* " B" was completed to the suggestion "b", which the working set already held
\* after another tag
C26_Witness ==
    /\ IsSome(fn_out)
    /\ fn_in.text = <<" ", "B">>
    /\ fn_in.suggestions = <<<<"a", "b">>, <<"b">>>>
    /\ fn_in.tags = <<<<"b">>, <<"a", "b">>>>
    /\ Unwrap(fn_out) = [input |-> << >>, tags |-> <<<<"b">>, <<"a", "b">>>>]

\* the path of the item at index
ListedPath(index) == fn_in.list[index + 1]
MatchesLeafOrPath(token, index) ==
    fuzzy_match(token, entry_name(ListedPath(index))) \/ fuzzy_match(token, ListedPath(index))
MatchesCachedTag(token, index) ==
    \E t \in 1..Len(CachedTags(index)) : fuzzy_match(token, CachedTags(index)[t])
\* the split of the query into its tokens by their first character
RawTokens == split_whitespace(fn_in.query)
SatisfiesQuery(index) ==
    \A i \in 1..Len(RawTokens) :
        IF RawTokens[i][1] = "@"
        THEN Len(RawTokens[i]) > 1 => MatchesLeafOrPath(Tail(RawTokens[i]), index)
        ELSE IF RawTokens[i][1] = "#"
        THEN Len(RawTokens[i]) > 1 => MatchesCachedTag(Tail(RawTokens[i]), index)
        ELSE MatchesLeafOrPath(RawTokens[i], index) \/ MatchesCachedTag(RawTokens[i], index)

\* C31: in every sort mode other than Match, under a non-empty query, an item is
\* listed iff every path token matches its leaf name or its path, every tag token
\* matches one of its cached tags and every generic token matches its leaf name, its
\* path or one of its cached tags; each listed item is listed once
C31_IncludedIffTokensMatch ==
    (IsSome(fn_out) /\ fn_in.sort_mode # "Match" /\ ~tokens_is_empty(GivenTokens)) =>
        /\ \A index \in 0..(Len(fn_in.list) - 1) :
              index \in Range(Unwrap(fn_out)) <=> SatisfiesQuery(index)
        /\ Len(Unwrap(fn_out)) = Cardinality(Range(Unwrap(fn_out)))

\* under the query "wd" in a name mode the path "/w/d", which holds the token only
\* across its separator, is listed with the three leaves that hold it
C31_Witness ==
    /\ IsSome(fn_out)
    /\ fn_in.sort_mode = "AlphaDesc"
    /\ fn_in.list = TieItems
    /\ fn_in.query = <<"w", "d">>
    /\ fn_in.tag_cache = EmptyMap
    /\ Range(Unwrap(fn_out)) = {0, 1, 2, 3}

\* C32: for the same query and tag cache every sort mode lists the same set of
\* indices as Match mode, and an item satisfies matches_tokens iff its
\* match_score_tokens is Some
C32_SameItemsInEveryMode ==
    IsSome(fn_out) =>
        /\ Range(Unwrap(fn_out)) =
              Range(filter_and_sort(fn_in.list, fn_in.query, "Match", EmptyMap, fn_in.tag_cache))
        /\ Len(Unwrap(fn_out)) = Cardinality(Range(Unwrap(fn_out)))
        /\ \A index \in 0..(Len(fn_in.list) - 1) :
              matches_tokens(ListedPath(index), CachedTags(index), GivenTokens)
                  <=> IsSome(CompositeScore(index))

(***************************************************************************)
(* compute_list_window_offset applied to bounded inputs                    *)
(***************************************************************************)
\* the longest list drawn
MaxTotal == 4
\* the tallest results area
MaxHeight == 3
\* the largest offset left by an earlier frame
MaxOffset == 5

\* the arguments of the draw closure: the selection is a row of the list, or 0
\* when the list is empty
WindowCalls ==
    {c \in [selected : 0..MaxTotal, current_offset : 0..MaxOffset,
            height : 0..MaxHeight, total : 0..MaxTotal] :
        IF c.total = 0 THEN c.selected = 0 ELSE c.selected < c.total}

InitWindow ==
    /\ SessionInit(Items2)
    /\ fn_in \in WindowCalls
    /\ fn_out = None

CallComputeListWindowOffset ==
    /\ fn_out = None
    /\ fn_out' = Some(compute_list_window_offset(fn_in.selected, fn_in.current_offset,
                                                 fn_in.height, fn_in.total))
    /\ UNCHANGED <<sessionVars, fn_in>>

SpecWindow == InitWindow /\ [][CallComputeListWindowOffset]_vars

\* C38: for a list that is not empty and a results area of height h > 0, the
\* offset returned puts the selected row inside the window, offset <= selected <
\* offset + h, and is at most max(0, total - h)
C38_SelectedRowInWindow ==
    (IsSome(fn_out) /\ fn_in.total > 0 /\ fn_in.height > 0) =>
        LET offset == fn_out[1]
        IN  /\ offset <= fn_in.selected
            /\ fn_in.selected < offset + fn_in.height
            /\ offset <= IF fn_in.total > fn_in.height THEN fn_in.total - fn_in.height ELSE 0

\* the selection was below the window left by the earlier frame, and the window
\* moved down to it
C38_Witness ==
    /\ IsSome(fn_out)
    /\ fn_in.total > 0
    /\ fn_in.height > 0
    /\ fn_in.selected >= fn_in.current_offset + fn_in.height
    /\ fn_out[1] > fn_in.current_offset

====
